---- MODULE Spec2Model ----
(***************************************************************************)
(* Model of the rate limiting runtime of the Shopify embedded app          *)
(* (app/utils/rateLimiter.js): the fixed-window counter store with its     *)
(* withRateLimit middleware, and the per-shop token bucket of              *)
(* ShopifyRateLimiter; of the validation helpers (app/utils/middleware.js) *)
(* and error factories (app/utils/errorHandler.js); and of the retrying    *)
(* HTTP client (app/utils/apiClient.js).  Time is the value of Date.now()  *)
(* in milliseconds.  JavaScript strings are TLA+ strings.                  *)
(***************************************************************************)
EXTENDS Integers, Sequences, FiniteSets, TLC

VARIABLES
    now,             \* Date.now(), in ms
    rateLimitStore,  \* the Map key -> {count, resetTime, firstRequest}
    active,          \* the calls of this run: (request, limit class) pairs, or triples
    served,          \* number of withRateLimit invocations started so far (bounded)
    inflight,        \* withRateLimit invocations suspended in `await handler(args)`
    last,            \* what the last fixed-window operation saw and returned
    history,         \* per key and window: the admitted requests whose handler succeeded
    unswept,         \* the store as the same calls leave it when the sweep never runs
    buckets,         \* ShopifyRateLimiter.buckets: Map shop key -> bucket
    waiters,         \* waitForAvailability calls suspended in setTimeout
    acquires,        \* number of waitForAvailability calls started so far (bounded)
    lastAcq,         \* what the last waitForAvailability step saw and returned
    pure,            \* the last call of a validation or error helper: arguments and result
    api              \* the ApiClient.request call in progress

vars == <<now, active, rateLimitStore, served, inflight, last, history, unswept,
          buckets, waiters, acquires, lastAcq, pure, api>>

windowVars == <<active, rateLimitStore, served, inflight, last, history, unswept>>
bucketVars == <<buckets, waiters, acquires, lastAcq>>
otherVars == <<pure, api>>

----------------------------------------------------------------------------
(* Bounds of the exploration *)

MaxWindows == 2
MaxServed == 44
MaxAcquires == 3
MaxWaiters == 2
MaxHalfTokens == 5
HalfTokenMs == 250

----------------------------------------------------------------------------
(* Arithmetic helpers: Math.ceil, Math.floor, Math.max, Math.min on exact  *)
(* quotients.  \div rounds towards minus infinity.                         *)

CeilDiv(a, b) == -((-a) \div b)

FloorDiv(a, b) == a \div b

Max(a, b) == IF a >= b THEN a ELSE b

Min(a, b) == IF a <= b THEN a ELSE b

\* JavaScript null and a present value, as an option set
Null == {}

Some(v) == {v}

\* the value an option holds
TheOption(option) == CHOOSE v \in option : TRUE

----------------------------------------------------------------------------
(* RATE_LIMITS: the five limit classes *)

RATE_LIMITS ==
    [ api      |-> [windowMs |-> 60 * 1000, maxRequests |-> 60,
                    skipSuccessfulRequests |-> FALSE, skipFailedRequests |-> FALSE],
      shopify  |-> [windowMs |-> 60 * 1000, maxRequests |-> 40,
                    skipSuccessfulRequests |-> FALSE, skipFailedRequests |-> TRUE],
      external |-> [windowMs |-> 60 * 1000, maxRequests |-> 100,
                    skipSuccessfulRequests |-> FALSE, skipFailedRequests |-> FALSE],
      auth     |-> [windowMs |-> 15 * 60 * 1000, maxRequests |-> 10,
                    skipSuccessfulRequests |-> TRUE, skipFailedRequests |-> FALSE],
      token    |-> [windowMs |-> 5 * 60 * 1000, maxRequests |-> 5,
                    skipSuccessfulRequests |-> FALSE, skipFailedRequests |-> FALSE] ]

\* const config = RATE_LIMITS[type] || RATE_LIMITS.api
Config(type) ==
    IF type \in DOMAIN RATE_LIMITS THEN RATE_LIMITS[type] ELSE RATE_LIMITS.api

\* String.prototype operations on strings
CharAt(s, i) == SubSeq(s, i, i)

Slice(s, from, to) == SubSeq(s, from + 1, Min(to, Len(s)))

WhiteSpace == {" ", "\t"}

RECURSIVE TrimStart(_)
TrimStart(s) ==
    IF Len(s) > 0 /\ CharAt(s, 1) \in WhiteSpace
    THEN TrimStart(SubSeq(s, 2, Len(s)))
    ELSE s

RECURSIVE TrimEnd(_)
TrimEnd(s) ==
    IF Len(s) > 0 /\ CharAt(s, Len(s)) \in WhiteSpace
    THEN TrimEnd(SubSeq(s, 1, Len(s) - 1))
    ELSE s

\* s.trim()
Trim(s) == TrimEnd(TrimStart(s))

\* s.endsWith(suffix)
EndsWith(s, suffix) ==
    /\ Len(s) >= Len(suffix)
    /\ SubSeq(s, Len(s) - Len(suffix) + 1, Len(s)) = suffix

\* s.includes(part), case-sensitive
Includes(s, part) ==
    \E i \in 1..(Len(s) - Len(part) + 1) : SubSeq(s, i, i + Len(part) - 1) = part

\* s.split(sep)[0] for a one-character separator: s up to its first sep
RECURSIVE SplitFirst(_, _)
SplitFirst(s, sep) ==
    IF Len(s) = 0 \/ CharAt(s, 1) = sep THEN ""
    ELSE CharAt(s, 1) \o SplitFirst(SubSeq(s, 2, Len(s)), sep)

\* generateKey: the template string `${type}:${identifier}:${endpoint}`
generateKey(identifier, endpoint, type) == type \o ":" \o identifier \o ":" \o endpoint

\* variant: X-Real-Ip is consulted before X-Forwarded-For
getClientIdentifier_RealIpFirst(request) ==
    IF request.shop # "" THEN request.shop
    ELSE IF request.realIp # "" THEN request.realIp
    ELSE IF request.forwarded # "" THEN Trim(SplitFirst(request.forwarded, ","))
    ELSE "unknown"

\* getClientIdentifier: a request is [shop, forwarded, realIp], the shop query
\* parameter and the X-Forwarded-For and X-Real-Ip headers; searchParams.get
\* and headers.get give null for an absent one, which every test here treats
\* as it treats "", so an absent one is "".
getClientIdentifier(request) ==
    IF request.shop # "" THEN request.shop
    ELSE IF request.forwarded # "" THEN Trim(SplitFirst(request.forwarded, ","))
    ELSE IF request.realIp # "" THEN request.realIp
    ELSE "unknown"

KeyOf(request, endpoint, type) ==
    generateKey(getClientIdentifier(request), endpoint, type)

----------------------------------------------------------------------------
(* Inputs *)

ReqShopA == [shop |-> "a.myshopify.com", forwarded |-> "", realIp |-> ""]

ReqIpB == [shop |-> "", forwarded |-> " 10.0.0.2, 10.0.0.9", realIp |-> "10.0.0.7"]

Endpoint == "orders"

Types == {"api", "shopify", "external", "auth", "token"}

\* the (request, limit class) pairs a caller may use
CallInputs == ({ReqShopA} \X Types) \cup {<<ReqIpB, "token">>}

\* the instants at which something runs: k windows of limit class type after
\* time 0, and the millisecond before and after
Offsets == {-1, 0, 1}

Instants(type) ==
    { t \in { k * Config(type).windowMs + j : k \in 0..MaxWindows, j \in Offsets } :
        t >= 0 }

----------------------------------------------------------------------------
(* The Map rateLimitStore, as a function on the set of keys it holds *)

Has(store, key) == key \in DOMAIN store

MapSet(store, key, data) ==
    [k \in DOMAIN store \cup {key} |-> IF k = key THEN data ELSE store[k]]

\* rateLimitStore.get(key) as an option
MapGet(store, key) == IF Has(store, key) THEN Some(store[key]) ELSE Null

\* variant: the sweep also deletes the entries whose window ends now
cleanupExpiredEntries_AtReset(store, t) ==
    [k \in {j \in DOMAIN store : ~(t >= store[j].resetTime)} |-> store[k]]

\* cleanupExpiredEntries: delete every entry with now > resetTime
cleanupExpiredEntries(store, t) ==
    [k \in {j \in DOMAIN store : ~(t > store[j].resetTime)} |-> store[k]]

----------------------------------------------------------------------------
(* errorHandler.js: createRateLimitError *)

createRateLimitError(retryAfter) ==
    [ type |-> "RATE_LIMIT_ERROR", statusCode |-> 429, severity |-> "medium",
      context |-> [retryAfter |-> retryAfter] ]

----------------------------------------------------------------------------
(* checkRateLimit, as a function of the store, the inputs, the instant t   *)
(* and the outcome of Math.random() < 0.01 (sweep).  The result holds the  *)
(* store the call leaves and either the returned info or the thrown error. *)

\* now > limitData.resetTime
WindowExpired(data, t) == t > data.resetTime

\* variant: the limit test written with > instead of >=
LimitExceeded_OffByOne(count, maxRequests) == count > maxRequests

\* limitData.count >= config.maxRequests
LimitExceeded(count, maxRequests) == count >= maxRequests

\* Math.ceil((limitData.resetTime - now) / 1000)
RetryAfter(data, t) == CeilDiv(data.resetTime - t, 1000)

\* variant: a window is created only for a key that has no entry, an expired
\* entry is kept
OpenWindow_NoExpiry(store, key, config, t) ==
    IF ~Has(store, key)
    THEN MapSet(store, key,
                [count |-> 0, resetTime |-> t + config.windowMs, firstRequest |-> t])
    ELSE store

\* lines 105-116: get the entry or create a new window
OpenWindow(store, key, config, t) ==
    IF ~Has(store, key) \/ WindowExpired(store[key], t)
    THEN MapSet(store, key,
                [count |-> 0, resetTime |-> t + config.windowMs, firstRequest |-> t])
    ELSE store

checkRateLimit(store, request, endpoint, type, t, sweep) ==
    LET config    == Config(type)
        key       == KeyOf(request, endpoint, type)
        swept     == IF sweep THEN cleanupExpiredEntries(store, t) ELSE store
        opened    == OpenWindow(swept, key, config, t)
        limitData == opened[key]
        counted   == [limitData EXCEPT !.count = @ + 1]
    IN  IF LimitExceeded(limitData.count, config.maxRequests)
        THEN [ store |-> opened, threw |-> TRUE,
               err |-> Some(createRateLimitError(RetryAfter(limitData, t))),
               ret |-> Null ]
        ELSE [ store |-> MapSet(opened, key, counted), threw |-> FALSE,
               err |-> Null,
               ret |-> Some([ limit |-> config.maxRequests,
                              remaining |-> Max(0, config.maxRequests - counted.count),
                              reset |-> counted.resetTime,
                              retryAfter |->
                                  IF counted.count >= config.maxRequests
                                  THEN Some(RetryAfter(counted, t)) ELSE Null ]) ]

\* variant: the decrement without its `count > 0` guard
Decrement_NoFloor(store, key) ==
    IF Has(store, key)
    THEN MapSet(store, key, [store[key] EXCEPT !.count = @ - 1])
    ELSE store

\* the `if (limitData && limitData.count > 0) { limitData.count-- }` of
\* recordSuccess and recordFailure
Decrement(store, key) ==
    IF Has(store, key) /\ store[key].count > 0
    THEN MapSet(store, key, [store[key] EXCEPT !.count = @ - 1])
    ELSE store

\* variant: recordSuccess reading the flag of recordFailure
recordSuccess_WrongFlag(store, request, endpoint, type) ==
    IF Config(type).skipFailedRequests
    THEN Decrement(store, KeyOf(request, endpoint, type))
    ELSE store

recordSuccess(store, request, endpoint, type) ==
    IF Config(type).skipSuccessfulRequests
    THEN Decrement(store, KeyOf(request, endpoint, type))
    ELSE store

recordFailure(store, request, endpoint, type) ==
    IF Config(type).skipFailedRequests
    THEN Decrement(store, KeyOf(request, endpoint, type))
    ELSE store

getRateLimitStatus(store, request, endpoint, type) ==
    LET key    == KeyOf(request, endpoint, type)
        config == Config(type)
    IN  IF ~Has(store, key)
        THEN [ limit |-> config.maxRequests, remaining |-> config.maxRequests,
               reset |-> Null, windowMs |-> config.windowMs, count |-> Null ]
        ELSE [ limit |-> config.maxRequests,
               remaining |-> Max(0, config.maxRequests - store[key].count),
               reset |-> Some(store[key].resetTime),
               windowMs |-> config.windowMs,
               count |-> Some(store[key].count) ]

----------------------------------------------------------------------------
(* State of the fixed-window limiter *)

\* the record of the last operation: the entry of its key before it ran
\* (before), the instant it ran (at), and what it returned or threw
ObservedAt(op, key, type, before, t, threw, ret, err) ==
    [ op |-> op, key |-> key, type |-> type,
      before |-> before, at |-> t, threw |-> threw, ret |-> ret, err |-> err ]

Observed(op, request, type, before, t, threw, ret, err) ==
    ObservedAt(op, KeyOf(request, Endpoint, type), type, before, t, threw, ret, err)

NoOp ==
    [ op |-> "none", key |-> "", type |-> "", before |-> Null, at |-> 0,
      threw |-> FALSE, ret |-> Null, err |-> Null ]

InitWindow ==
    /\ rateLimitStore = <<>>
    /\ served = 0
    /\ inflight = <<>>
    /\ last = NoOp
    /\ history = <<>>
    /\ unswept = <<>>

\* a direct call of the exported checkRateLimit with the arguments c; the
\* same call on the store that is never swept
CheckRateLimitAt(c, sweep) ==
    /\ LET r == checkRateLimit(rateLimitStore, c.request, c.endpoint, c.type, now, sweep)
       IN  /\ rateLimitStore' = r.store
           /\ last' = ObservedAt("checkRateLimit", KeyOf(c.request, c.endpoint, c.type),
                                 c.type,
                                 MapGet(rateLimitStore, KeyOf(c.request, c.endpoint, c.type)),
                                 now, r.threw, r.ret, r.err)
    /\ unswept' = checkRateLimit(unswept, c.request, c.endpoint, c.type, now, FALSE).store
    /\ UNCHANGED <<now, active, served, inflight, history, bucketVars, otherVars>>

\* a direct call of the exported recordSuccess with the arguments c
RecordSuccessAt(c) ==
    /\ rateLimitStore' = recordSuccess(rateLimitStore, c.request, c.endpoint, c.type)
    /\ last' = ObservedAt("recordSuccess", KeyOf(c.request, c.endpoint, c.type), c.type,
                          MapGet(rateLimitStore, KeyOf(c.request, c.endpoint, c.type)),
                          now, FALSE, Null, Null)
    /\ unswept' = recordSuccess(unswept, c.request, c.endpoint, c.type)
    /\ UNCHANGED <<now, active, served, inflight, history, bucketVars, otherVars>>

\* a direct call of the exported recordFailure with the arguments c
RecordFailureAt(c) ==
    /\ rateLimitStore' = recordFailure(rateLimitStore, c.request, c.endpoint, c.type)
    /\ last' = ObservedAt("recordFailure", KeyOf(c.request, c.endpoint, c.type), c.type,
                          MapGet(rateLimitStore, KeyOf(c.request, c.endpoint, c.type)),
                          now, FALSE, Null, Null)
    /\ unswept' = recordFailure(unswept, c.request, c.endpoint, c.type)
    /\ UNCHANGED <<now, active, served, inflight, history, bucketVars, otherVars>>

\* the arguments of a call for the endpoint of the one-key specifications
Call(request, type) == [request |-> request, endpoint |-> Endpoint, type |-> type]

CheckRateLimit(request, type, sweep) == CheckRateLimitAt(Call(request, type), sweep)

RecordSuccess(request, type) == RecordSuccessAt(Call(request, type))

RecordFailure(request, type) == RecordFailureAt(Call(request, type))

\* a call of getRateLimitStatus
GetRateLimitStatus(request, type) ==
    /\ last' = Observed("getRateLimitStatus", request, type,
                        MapGet(rateLimitStore, KeyOf(request, Endpoint, type)),
                        now, FALSE,
                        Some(getRateLimitStatus(rateLimitStore, request, Endpoint, type)),
                        Null)
    /\ UNCHANGED <<now, active, rateLimitStore, served, inflight, history, unswept,
                   bucketVars, otherVars>>

(* withRateLimit: the wrapper runs checkRateLimit and, when it is admitted, *)
(* suspends in `await handler(args)`; a thrown RATE_LIMIT error is caught   *)
(* by the wrapper's own catch, which calls recordFailure and rethrows.      *)
WithRateLimitCall(request, type, sweep) ==
    /\ served < MaxServed
    /\ LET r == checkRateLimit(rateLimitStore, request, Endpoint, type, now, sweep)
           before == MapGet(rateLimitStore, KeyOf(request, Endpoint, type))
       IN  IF r.threw
           THEN /\ rateLimitStore' = recordFailure(r.store, request, Endpoint, type)
                /\ inflight' = inflight
                /\ last' = Observed("withRateLimit:rejected", request, type, before,
                                    now, TRUE, Null, r.err)
           ELSE /\ rateLimitStore' = r.store
                /\ inflight' = Append(inflight,
                                      [request |-> request, type |-> type, info |-> r.ret])
                /\ last' = Observed("withRateLimit:admitted", request, type, before,
                                    now, FALSE, r.ret, Null)
    /\ LET u == checkRateLimit(unswept, request, Endpoint, type, now, FALSE)
       IN  unswept' = IF u.threw THEN recordFailure(u.store, request, Endpoint, type)
                      ELSE u.store
    /\ served' = served + 1
    /\ UNCHANGED <<now, active, history, bucketVars, otherVars>>

RemoveAt(seq, i) == [j \in 1..(Len(seq) - 1) |-> IF j < i THEN seq[j] ELSE seq[j + 1]]

\* one more successful request among those admitted for key in the window
\* that ends at reset
Succeeded(h, key, reset) ==
    LET window == <<key, reset>>
    IN  [w \in DOMAIN h \cup {window} |->
            IF w = window THEN (IF w \in DOMAIN h THEN h[w] ELSE 0) + 1 ELSE h[w]]

\* the awaited handler resolves: recordSuccess, headers, return response
HandlerSucceeds(i) ==
    /\ i \in DOMAIN inflight
    /\ LET f == inflight[i]
       IN  /\ rateLimitStore' = recordSuccess(rateLimitStore, f.request, Endpoint, f.type)
           /\ last' = Observed("withRateLimit:success", f.request, f.type,
                               MapGet(rateLimitStore, KeyOf(f.request, Endpoint, f.type)),
                               now, FALSE, f.info, Null)
           /\ history' = Succeeded(history, KeyOf(f.request, Endpoint, f.type),
                                   TheOption(f.info).reset)
           /\ unswept' = recordSuccess(unswept, f.request, Endpoint, f.type)
    /\ inflight' = RemoveAt(inflight, i)
    /\ UNCHANGED <<now, active, served, bucketVars, otherVars>>

\* the awaited handler rejects: catch, recordFailure, rethrow
HandlerFails(i) ==
    /\ i \in DOMAIN inflight
    /\ LET f == inflight[i]
       IN  /\ rateLimitStore' = recordFailure(rateLimitStore, f.request, Endpoint, f.type)
           /\ last' = Observed("withRateLimit:failure", f.request, f.type,
                               MapGet(rateLimitStore, KeyOf(f.request, Endpoint, f.type)),
                               now, TRUE, Null, Null)
           /\ unswept' = recordFailure(unswept, f.request, Endpoint, f.type)
    /\ inflight' = RemoveAt(inflight, i)
    /\ UNCHANGED <<now, active, served, history, bucketVars, otherVars>>

\* the clock advances to a later instant
Tick(t) ==
    /\ t > now
    /\ now' = t
    /\ UNCHANGED <<windowVars, bucketVars, otherVars>>

----------------------------------------------------------------------------
(* ShopifyRateLimiter: the per-shop token bucket.  waitForAvailability runs *)
(* synchronously up to its `await new Promise(setTimeout)`; a suspended     *)
(* call is a waiter, resumed by its timer no earlier than wakeAt.           *)

BucketMaxTokens == 40

BucketRefillRate == 2

Shops == {"a.myshopify.com", "b.myshopify.com"}

\* the request costs the callers use: the default, a whole bucket, more than a bucket
Costs == {1, BucketMaxTokens, BucketMaxTokens + 1}

\* the instants at which something runs: every HalfTokenMs
BucketInstants == { k * HalfTokenMs : k \in 0..MaxHalfTokens }

\* const key = `shopify:${shop}`
BucketKey(shop) == <<"shopify", shop>>

\* lines 247-257: get the bucket or create a full one
GetOrCreate(bs, shop, t) ==
    IF Has(bs, BucketKey(shop)) THEN bs[BucketKey(shop)]
    ELSE [ tokens |-> BucketMaxTokens, lastRefill |-> t,
           maxTokens |-> BucketMaxTokens, refillRate |-> BucketRefillRate ]

\* variant: the elapsed tokens rounded up instead of down
TokensToAdd_Ceil(bucket, t) == CeilDiv((t - bucket.lastRefill) * bucket.refillRate, 1000)

\* Math.floor(((now - bucket.lastRefill) / 1000) * bucket.refillRate)
TokensToAdd(bucket, t) == FloorDiv((t - bucket.lastRefill) * bucket.refillRate, 1000)

\* variant: lastRefill set at every access, whether or not a token is added
Refill_EveryAccess(bucket, t) ==
    [bucket EXCEPT !.tokens = Min(bucket.maxTokens, @ + TokensToAdd(bucket, t)),
                   !.lastRefill = t]

\* variant: the refill without its Math.min cap
Refill_NoCap(bucket, t) ==
    IF TokensToAdd(bucket, t) > 0
    THEN [bucket EXCEPT !.tokens = @ + TokensToAdd(bucket, t), !.lastRefill = t]
    ELSE bucket

\* lines 259-267: the lazy refill
Refill(bucket, t) ==
    IF TokensToAdd(bucket, t) > 0
    THEN [bucket EXCEPT !.tokens = Min(bucket.maxTokens, @ + TokensToAdd(bucket, t)),
                        !.lastRefill = t]
    ELSE bucket

\* Math.ceil((requestCost - bucket.tokens) / bucket.refillRate * 1000)
WaitTime(bucket, requestCost) ==
    CeilDiv((requestCost - bucket.tokens) * 1000, bucket.refillRate)

\* variant: one token consumed whatever the request cost
Consume_One(bucket, requestCost) == [bucket EXCEPT !.tokens = @ - 1]

\* bucket.tokens -= requestCost
Consume(bucket, requestCost) == [bucket EXCEPT !.tokens = @ - requestCost]

\* variant: after the wait the cost is added and consumed, tokens unchanged
GrantAfterWait_Consumed(bucket, requestCost) == bucket

\* after the wait: bucket.tokens = Math.min(bucket.maxTokens, bucket.tokens + requestCost)
GrantAfterWait(bucket, requestCost) ==
    [bucket EXCEPT !.tokens = Min(bucket.maxTokens, @ + requestCost)]

\* { remainingTokens: bucket.tokens, maxTokens: bucket.maxTokens }
Availability(bucket) == [remainingTokens |-> bucket.tokens, maxTokens |-> bucket.maxTokens]

\* the record of the last step of a waitForAvailability call: the bucket of
\* the shop before the step (before), the bucket right after the lazy refill
\* (refilled), the wait computed (waitTime), the instant the timer is due
\* (wakeAt) and the value returned (ret)
Acquired(op, shop, requestCost, before, refilled, t, waitTime, wakeAt, ret) ==
    [ op |-> op, shop |-> shop, cost |-> requestCost, before |-> before,
      refilled |-> refilled, at |-> t, waitTime |-> waitTime, wakeAt |-> wakeAt,
      ret |-> ret ]

NoAcquire ==
    [ op |-> "none", shop |-> "", cost |-> 0, before |-> Null, refilled |-> Null,
      at |-> 0, waitTime |-> Null, wakeAt |-> Null, ret |-> Null ]

InitBucket ==
    /\ buckets = <<>>
    /\ waiters = <<>>
    /\ acquires = 0
    /\ lastAcq = NoAcquire

\* waitForAvailability(shop, requestCost) up to its return or its await
WaitForAvailability(shop, requestCost) ==
    /\ acquires < MaxAcquires
    /\ LET key      == BucketKey(shop)
           bucket   == GetOrCreate(buckets, shop, now)
           refilled == Refill(bucket, now)
       IN  IF refilled.tokens < requestCost
           THEN /\ Len(waiters) < MaxWaiters
                /\ buckets' = MapSet(buckets, key, refilled)
                /\ waiters' = Append(waiters,
                                     [ shop |-> shop, cost |-> requestCost,
                                       wakeAt |-> now + WaitTime(refilled, requestCost) ])
                /\ lastAcq' = Acquired("suspend", shop, requestCost, MapGet(buckets, key),
                                       Some(refilled), now,
                                       Some(WaitTime(refilled, requestCost)),
                                       Some(now + WaitTime(refilled, requestCost)), Null)
           ELSE /\ buckets' = MapSet(buckets, key, Consume(refilled, requestCost))
                /\ waiters' = waiters
                /\ lastAcq' = Acquired("grant", shop, requestCost, MapGet(buckets, key),
                                       Some(refilled), now, Null, Null,
                                       Some(Availability(Consume(refilled, requestCost))))
    /\ acquires' = acquires + 1
    /\ UNCHANGED <<now, windowVars, otherVars>>

\* variant: a woken call goes on only once the bucket holds its cost
ResumeAfterWait_WhenTokens(i) ==
    /\ i \in DOMAIN waiters
    /\ now >= waiters[i].wakeAt
    /\ buckets[BucketKey(waiters[i].shop)].tokens >= waiters[i].cost
    /\ LET w       == waiters[i]
           key     == BucketKey(w.shop)
           granted == GrantAfterWait(buckets[key], w.cost)
       IN  /\ buckets' = MapSet(buckets, key, granted)
           /\ lastAcq' = Acquired("resume", w.shop, w.cost, MapGet(buckets, key),
                                  Null, now, Null, Some(w.wakeAt),
                                  Some(Availability(granted)))
    /\ waiters' = RemoveAt(waiters, i)
    /\ UNCHANGED <<now, acquires, windowVars, otherVars>>

\* the timer of waiter i fires: the rest of waitForAvailability runs
ResumeAfterWait(i) ==
    /\ i \in DOMAIN waiters
    /\ now >= waiters[i].wakeAt
    /\ LET w       == waiters[i]
           key     == BucketKey(w.shop)
           granted == GrantAfterWait(buckets[key], w.cost)
       IN  /\ buckets' = MapSet(buckets, key, granted)
           /\ lastAcq' = Acquired("resume", w.shop, w.cost, MapGet(buckets, key),
                                  Null, now, Null, Some(w.wakeAt),
                                  Some(Availability(granted)))
    /\ waiters' = RemoveAt(waiters, i)
    /\ UNCHANGED <<now, acquires, windowVars, otherVars>>

----------------------------------------------------------------------------
(* JavaScript values of the validation helpers: a value is a record whose  *)
(* field k is its kind; a string has its text in s, a number its value in  *)
(* n, a boolean its value in b, an array the list of its items in items.   *)

JsNull == [k |-> "null"]

JsUndefined == [k |-> "undefined"]

JsNaN == [k |-> "NaN"]

JsObject == [k |-> "object"]

Str(s) == [k |-> "string", s |-> s]

Num(n) == [k |-> "number", n |-> n]

Bool(b) == [k |-> "boolean", b |-> b]

Arr(items) == [k |-> "array", items |-> items]

\* value === null || value === undefined
IsNullish(value) == value.k \in {"null", "undefined"}

\* value === null || value === undefined || value === ''
IsEmptyValue(value) == IsNullish(value) \/ value = Str("")

\* the call a helper was last applied in: its name, its arguments, and the
\* value it returned or the error it threw
Applied(fn, args, threw, ret, err) ==
    [ fn |-> fn, args |-> args, threw |-> threw, ret |-> ret, err |-> err ]

Returned(fn, args, ret) == Applied(fn, args, FALSE, Some(ret), Null)

Threw(fn, args, err) == Applied(fn, args, TRUE, Null, Some(err))

NoCall == Applied("none", <<>>, FALSE, Null, Null)

\* the helpers keep no state from one call to the next: a behaviour applies
\* one helper to one input
NotApplied == pure = NoCall

----------------------------------------------------------------------------
(* errorHandler.js: AppError and the error factories *)

AppError(message, type, statusCode, severity, context) ==
    [ message |-> message, type |-> type, statusCode |-> statusCode,
      severity |-> severity, context |-> context ]

createValidationError(field, message, value) ==
    AppError("Validation failed for " \o field \o ": " \o message,
             "VALIDATION_ERROR", 400, "low",
             [field |-> field, value |-> value, validationMessage |-> message])

\* variant: the status is taken as given, without the fallback to 502
ExternalStatus_Unclamped(statusCode) == statusCode

\* statusCode >= 400 && statusCode < 600 ? statusCode : 502
ExternalStatus(statusCode) ==
    IF statusCode >= 400 /\ statusCode < 600 THEN statusCode ELSE 502

\* statusCode >= 500 ? HIGH : MEDIUM
StatusSeverity(statusCode) == IF statusCode >= 500 THEN "high" ELSE "medium"

createExternalApiError(apiName, statusCode, message, responseData) ==
    AppError("External API error from " \o apiName \o ": " \o message,
             "EXTERNAL_API_ERROR", ExternalStatus(statusCode), StatusSeverity(statusCode),
             [ apiName |-> apiName, originalStatusCode |-> statusCode,
               responseData |-> responseData ])

createDatabaseError(operation, originalMessage) ==
    AppError("Database operation failed: " \o operation,
             "DATABASE_ERROR", 500, "high",
             [operation |-> operation, originalError |-> originalMessage])

\* statusCode is an option: Null is an omitted argument, which defaults to 500
createShopifyApiError(operation, originalMessage, statusCode) ==
    LET status == IF statusCode = Null THEN 500 ELSE CHOOSE c \in statusCode : TRUE
    IN  AppError("Shopify API error during " \o operation \o ": " \o originalMessage,
                 "SHOPIFY_API_ERROR", status, StatusSeverity(status),
                 [operation |-> operation, originalError |-> originalMessage])

\* the statuses, messages and retryAfter values the factories are applied to
Statuses == {0, 200, 302, 399, 400, 404, 429, 499, 500, 502, 599, 600, 700}

Messages == {"Not Found", "boom", ""}

RetryAfters == {0, 1, 60}

CreateValidationError(field, message) ==
    /\ NotApplied
    /\ pure' = Returned("createValidationError", <<field, message>>,
                        createValidationError(field, message, JsNull))
    /\ UNCHANGED <<now, windowVars, bucketVars, api>>

CreateExternalApiError(statusCode, message) ==
    /\ NotApplied
    /\ pure' = Returned("createExternalApiError", <<statusCode, message>>,
                        createExternalApiError("api.example.com", statusCode, message, JsNull))
    /\ UNCHANGED <<now, windowVars, bucketVars, api>>

CreateDatabaseError(message) ==
    /\ NotApplied
    /\ pure' = Returned("createDatabaseError", <<message>>,
                        createDatabaseError("save", message))
    /\ UNCHANGED <<now, windowVars, bucketVars, api>>

CreateShopifyApiError(statusCode, message) ==
    /\ NotApplied
    /\ pure' = Returned("createShopifyApiError", <<statusCode, message>>,
                        createShopifyApiError("orders", message, statusCode))
    /\ UNCHANGED <<now, windowVars, bucketVars, api>>

CreateRateLimitError(retryAfter) ==
    /\ NotApplied
    /\ pure' = Returned("createRateLimitError", <<retryAfter>>,
                        createRateLimitError(retryAfter))
    /\ UNCHANGED <<now, windowVars, bucketVars, api>>

----------------------------------------------------------------------------
(* errorHandler.js: validateRequiredFields.  data is a function from the   *)
(* field names it has to their values, requiredFields a list of names.     *)

MaxRequired == 2

FieldNames == {"shop", "email"}

FieldValues == {JsNull, JsUndefined, Str(""), Str("x"), Num(0)}

\* the records over FieldNames: every subset of the names, every value each
Records == UNION { [D -> FieldValues] : D \in SUBSET FieldNames }

RequiredLists == UNION { [1..n -> FieldNames] : n \in 0..MaxRequired }

\* missing.join(sep)
RECURSIVE Join(_, _)
Join(items, sep) ==
    IF Len(items) = 0 THEN ""
    ELSE IF Len(items) = 1 THEN items[1]
    ELSE items[1] \o sep \o Join(SubSeq(items, 2, Len(items)), sep)

\* variant: a field holding the empty string counts as present
IsMissing_EmptyIsPresent(data, field) ==
    \/ field \notin DOMAIN data
    \/ IsNullish(data[field])

\* !(field in data) || data[field] === null || data[field] === undefined || data[field] === ''
IsMissing(data, field) ==
    \/ field \notin DOMAIN data
    \/ IsEmptyValue(data[field])

validateRequiredFields(data, requiredFields) ==
    LET missing == SelectSeq(requiredFields, LAMBDA field : IsMissing(data, field))
    IN  IF Len(missing) > 0
        THEN [ threw |-> TRUE, ret |-> Null,
               err |-> Some(createValidationError("required_fields",
                          "Missing required fields: " \o Join(missing, ", "), missing)) ]
        ELSE [ threw |-> FALSE, ret |-> Some(TRUE), err |-> Null ]

ValidateRequiredFields(data, requiredFields) ==
    /\ NotApplied
    /\ LET r == validateRequiredFields(data, requiredFields)
       IN  pure' = Applied("validateRequiredFields", <<data, requiredFields>>,
                           r.threw, r.ret, r.err)
    /\ UNCHANGED <<now, windowVars, bucketVars, api>>

----------------------------------------------------------------------------
(* The window keys of two requests, as checkRateLimit derives them *)

RequestInputs ==
    [ shop : {"", "a.myshopify.com", "b.myshopify.com"},
      forwarded : {"", "10.0.0.2", " 10.0.0.2 , 10.0.0.9", ",10.0.0.9", " "},
      realIp : {"", "10.0.0.7", "10.0.0.2"} ]

GetClientIdentifier(request, other) ==
    /\ NotApplied
    /\ pure' = Returned("getClientIdentifier", <<request, other>>,
                 [ ids |-> <<getClientIdentifier(request), getClientIdentifier(other)>>,
                   keys |-> <<KeyOf(request, Endpoint, "api"), KeyOf(other, Endpoint, "api")>> ])
    /\ UNCHANGED <<now, windowVars, bucketVars, api>>

----------------------------------------------------------------------------
(* Conversions of JavaScript values.  Numbers are integers: the inputs     *)
(* hold no fraction and no exponent.                                       *)

Digits == "0123456789"

UpperCase == "ABCDEFGHIJKLMNOPQRSTUVWXYZ"

LowerCase == "abcdefghijklmnopqrstuvwxyz"

\* the position of character c in the string chars, 0 when it is not there
IndexIn(chars, c) ==
    IF \E i \in 1..Len(chars) : CharAt(chars, i) = c
    THEN CHOOSE i \in 1..Len(chars) : CharAt(chars, i) = c
    ELSE 0

IsDigit(c) == IndexIn(Digits, c) > 0

IsLetter(c) == IndexIn(UpperCase, c) > 0 \/ IndexIn(LowerCase, c) > 0

IsAlnum(c) == IsDigit(c) \/ IsLetter(c)

\* s.toLowerCase()
RECURSIVE ToLowerCase(_)
ToLowerCase(s) ==
    IF Len(s) = 0 THEN ""
    ELSE LET c == CharAt(s, 1)
             i == IndexIn(UpperCase, c)
         IN  (IF i > 0 THEN CharAt(LowerCase, i) ELSE c)
                 \o ToLowerCase(SubSeq(s, 2, Len(s)))

\* s with the characters of the string chars removed: s.replace(/[chars]/g, '')
RECURSIVE Without(_, _)
Without(s, chars) ==
    IF Len(s) = 0 THEN ""
    ELSE (IF IndexIn(chars, CharAt(s, 1)) > 0 THEN "" ELSE CharAt(s, 1))
             \o Without(SubSeq(s, 2, Len(s)), chars)

\* the decimal text of a natural number, and of an integer
RECURSIVE NatToStr(_)
NatToStr(n) ==
    IF n < 10 THEN CharAt(Digits, n + 1)
    ELSE NatToStr(n \div 10) \o CharAt(Digits, (n % 10) + 1)

IntToStr(n) == IF n < 0 THEN "-" \o NatToStr(-n) ELSE NatToStr(n)

\* the value of a non-empty string of digits
RECURSIVE DigitsToNat(_)
DigitsToNat(s) ==
    IF Len(s) = 0 THEN 0
    ELSE 10 * DigitsToNat(SubSeq(s, 1, Len(s) - 1)) + (IndexIn(Digits, CharAt(s, Len(s))) - 1)

AllDigits(s) == Len(s) > 0 /\ \A i \in 1..Len(s) : IsDigit(CharAt(s, i))

\* the longest prefix of s made of digits
RECURSIVE DigitPrefix(_)
DigitPrefix(s) ==
    IF Len(s) > 0 /\ IsDigit(CharAt(s, 1))
    THEN CharAt(s, 1) \o DigitPrefix(SubSeq(s, 2, Len(s)))
    ELSE ""

\* String(value); an array is its items joined by commas, null and undefined
\* items giving the empty string
RECURSIVE ToStr(_)
ToStr(value) ==
    CASE value.k = "string"    -> value.s
      [] value.k = "number"    -> IntToStr(value.n)
      [] value.k = "boolean"   -> IF value.b THEN "true" ELSE "false"
      [] value.k = "NaN"       -> "NaN"
      [] value.k = "null"      -> "null"
      [] value.k = "undefined" -> "undefined"
      [] value.k = "object"    -> "[object Object]"
      [] value.k = "array"     ->
            Join([i \in 1..Len(value.items) |->
                    IF IsNullish(value.items[i]) THEN "" ELSE ToStr(value.items[i])], ",")

\* Number(text): blank text is 0, a signed string of digits its value, any
\* other text NaN
StrToNumber(text) ==
    LET t == Trim(text)
        signed == Len(t) > 0 /\ CharAt(t, 1) \in {"-", "+"}
        body == IF signed THEN SubSeq(t, 2, Len(t)) ELSE t
    IN  IF t = "" THEN Num(0)
        ELSE IF AllDigits(body)
             THEN Num(IF signed /\ CharAt(t, 1) = "-" THEN -DigitsToNat(body)
                      ELSE DigitsToNat(body))
             ELSE JsNaN

\* Number(value)
ToNumber(value) ==
    CASE value.k \in {"number", "NaN"} -> value
      [] value.k = "boolean"           -> Num(IF value.b THEN 1 ELSE 0)
      [] value.k = "null"              -> Num(0)
      [] value.k \in {"undefined", "object"} -> JsNaN
      [] value.k \in {"string", "array"}     -> StrToNumber(ToStr(value))

\* parseInt(value, 10): the signed digits that start the trimmed text of value
ParseInt(value) ==
    LET t == TrimStart(ToStr(value))
        signed == Len(t) > 0 /\ CharAt(t, 1) \in {"-", "+"}
        body == DigitPrefix(IF signed THEN SubSeq(t, 2, Len(t)) ELSE t)
    IN  IF body = "" THEN JsNaN
        ELSE Num(IF signed /\ CharAt(t, 1) = "-" THEN -DigitsToNat(body)
                 ELSE DigitsToNat(body))

----------------------------------------------------------------------------
(* middleware.js: sanitizeInput(input, type, options).  options is a       *)
(* function from the option names it holds to their values; an omitted     *)
(* options argument is the empty one.                                      *)

MAX_LENGTHS ==
    [ shortText |-> 100, mediumText |-> 500, longText |-> 2000, name |-> 100,
      email |-> 254, phone |-> 20, address |-> 200, city |-> 100, country |-> 100,
      postalCode |-> 20, token |-> 1000, description |-> 2000, title |-> 200,
      sku |-> 100, tag |-> 50 ]

NoOptions == <<>>

\* options[name] is set and true, for the boolean options
Flag(options, name) == name \in DOMAIN options /\ options[name] = TRUE

\* options[name] is set and not 0, for the numeric options
Truthy(options, name) == name \in DOMAIN options /\ options[name] # 0

\* options[name] !== undefined
Defined(options, name) == name \in DOMAIN options

\* options.maxLength || MAX_LENGTHS[type] || MAX_LENGTHS.mediumText
MaxLengthOf(type, options) ==
    IF Truthy(options, "maxLength") THEN options["maxLength"]
    ELSE IF type \in DOMAIN MAX_LENGTHS THEN MAX_LENGTHS[type]
    ELSE MAX_LENGTHS.mediumText

\* the control characters /[\x00-\x1F\x7F]/ of the input alphabet
ControlChars == "\t"

\* s with only the characters of the string chars kept
RECURSIVE Keep(_, _)
Keep(s, chars) ==
    IF Len(s) = 0 THEN ""
    ELSE (IF IndexIn(chars, CharAt(s, 1)) > 0 THEN CharAt(s, 1) ELSE "")
             \o Keep(SubSeq(s, 2, Len(s)), chars)

\* s.replace(/\s+/g, ' ')
RECURSIVE CollapseSpaces(_)
CollapseSpaces(s) ==
    IF Len(s) = 0 THEN ""
    ELSE IF CharAt(s, 1) \in WhiteSpace
         THEN " " \o CollapseSpaces(TrimStart(s))
         ELSE CharAt(s, 1) \o CollapseSpaces(SubSeq(s, 2, Len(s)))

\* isNaN(num) -> allowNull ? null : 0, then the clamp to options.min / options.max
ClampNumber(num, options) ==
    IF num = JsNaN THEN (IF Flag(options, "allowNull") THEN JsNull ELSE Num(0))
    ELSE IF Defined(options, "min") /\ num.n < options["min"] THEN Num(options["min"])
    ELSE IF Defined(options, "max") /\ num.n > options["max"] THEN Num(options["max"])
    ELSE num

\* the boolean case
ToBoolean(input) ==
    CASE input.k = "boolean" -> input.b
      [] input.k = "string"  -> ToLowerCase(input.s) \in {"true", "1", "yes"}
      [] input.k = "number"  -> input.n # 0
      [] input.k = "NaN"     -> FALSE
      [] input.k \in {"array", "object"} -> TRUE

\* JSON.parse(text) for the texts of the input set: an option holding the
\* parsed value, Null when JSON.parse throws
JsonParse(text) ==
    LET t == Trim(text)
    IN  CASE t = "{}"    -> Some(JsObject)
          [] t = "[]"    -> Some(Arr(<<>>))
          [] t = "null"  -> Some(JsNull)
          [] t = "true"  -> Some(Bool(TRUE))
          [] t = "false" -> Some(Bool(FALSE))
          [] AllDigits(t) -> Some(Num(DigitsToNat(t)))
          [] OTHER       -> Null

ShopifySuffix == ".myshopify.com"

\* variant: the suffix is appended whatever the domain ends with
ShopifyDomain_AlwaysAppend(domain) == domain \o ShopifySuffix

\* if (!domain.endsWith('.myshopify.com')) return domain + '.myshopify.com'; return domain
ShopifyDomain(domain) ==
    IF ~EndsWith(domain, ShopifySuffix) THEN domain \o ShopifySuffix ELSE domain

\* the type names with a case of their own in the switch of sanitizeInput
SwitchTypes ==
    {"string", "text", "name", "email", "phone", "number", "integer", "boolean",
     "url", "shopifyDomain", "token", "array", "json"}

\* return options.allowNull ? null : ''
NullResult(options) ==
    IF Flag(options, "allowNull") THEN JsNull ELSE Str("")

\* the cases of the switch other than url, which the input sets leave out
RECURSIVE sanitizeInput(_, _, _)
sanitizeInput(input, type, options) ==
    IF IsNullish(input) THEN NullResult(options)
    ELSE LET maxLength == MaxLengthOf(type, options)
             text == ToStr(input)
         IN  CASE type \in {"string", "text"} ->
                    Str(Slice(Without(Trim(text), ControlChars), 0, maxLength))
               [] type = "name" ->
                    Str(Slice(CollapseSpaces(Without(Trim(text), "<>\"'&")), 0, MAX_LENGTHS.name))
               [] type = "email" ->
                    Str(Slice(ToLowerCase(Trim(text)), 0, MAX_LENGTHS.email))
               [] type = "phone" ->
                    Str(Slice(Trim(Keep(text, Digits \o "+-() \t")), 0, MAX_LENGTHS.phone))
               [] type = "number"  -> ClampNumber(ToNumber(input), options)
               [] type = "integer" -> ClampNumber(ParseInt(input), options)
               [] type = "boolean" -> Bool(ToBoolean(input))
               [] type = "shopifyDomain" -> Str(ShopifyDomain(ToLowerCase(Trim(text))))
               [] type = "token" ->
                    Str(Slice(Keep(Trim(text), Digits \o UpperCase \o LowerCase \o "_-."),
                              0, MAX_LENGTHS.token))
               [] type = "array" ->
                    IF input.k # "array" THEN Arr(<<>>)
                    ELSE LET itemType == IF "itemType" \in DOMAIN options
                                         THEN options["itemType"] ELSE "string"
                             maxItems == IF Truthy(options, "maxItems")
                                         THEN options["maxItems"] ELSE 100
                             items == [i \in 1..Len(input.items) |->
                                          sanitizeInput(input.items[i], itemType, options)]
                         IN  Arr(SubSeq(items, 1, Min(maxItems, Len(items))))
               [] type = "json" ->
                    IF input.k = "string"
                    THEN LET parsed == JsonParse(input.s)
                         IN  IF parsed = Null
                             THEN (IF Flag(options, "allowNull") THEN JsNull ELSE JsObject)
                             ELSE CHOOSE v \in parsed : TRUE
                    ELSE input
               [] type \notin SwitchTypes ->
                    Str(Slice(Trim(text), 0, maxLength))

----------------------------------------------------------------------------
(* middleware.js: PATTERNS and validateInput(value, type, options) *)

AllIn(s, chars) == \A i \in 1..Len(s) : IndexIn(chars, CharAt(s, i)) > 0

Alnum == Digits \o UpperCase \o LowerCase

\* /^[a-zA-Z0-9._%+-]+@[a-zA-Z0-9.-]+\.[a-zA-Z]{2,}$/
MatchesEmail(s) ==
    \E at \in 2..Len(s) : \E dot \in (at + 2)..(Len(s) - 2) :
        /\ CharAt(s, at) = "@"
        /\ CharAt(s, dot) = "."
        /\ AllIn(SubSeq(s, 1, at - 1), Alnum \o "._%+-")
        /\ AllIn(SubSeq(s, at + 1, dot - 1), Alnum \o ".-")
        /\ AllIn(SubSeq(s, dot + 1, Len(s)), UpperCase \o LowerCase)

\* /^\+?[\d\s\-\(\)]{10,20}$/
MatchesPhone(s) ==
    LET body == IF Len(s) > 0 /\ CharAt(s, 1) = "+" THEN SubSeq(s, 2, Len(s)) ELSE s
    IN  Len(body) \in 10..20 /\ AllIn(body, Digits \o " \t-()")

\* /^[a-zA-Z0-9][a-zA-Z0-9\-]*[a-zA-Z0-9]\.myshopify\.com$/
MatchesShopifyDomain(s) ==
    /\ EndsWith(s, ShopifySuffix)
    /\ LET label == SubSeq(s, 1, Len(s) - Len(ShopifySuffix))
       IN  /\ Len(label) >= 2
           /\ IsAlnum(CharAt(label, 1))
           /\ IsAlnum(CharAt(label, Len(label)))
           /\ AllIn(label, Alnum \o "-")

\* /^gid:\/\/shopify\/[A-Za-z]+\/\d+$/ or /^\d+$/
MatchesShopifyId(s) ==
    \/ AllDigits(s)
    \/ \E slash \in 16..(Len(s) - 1) :
          /\ SubSeq(s, 1, 14) = "gid://shopify/"
          /\ CharAt(s, slash) = "/"
          /\ AllIn(SubSeq(s, 15, slash - 1), UpperCase \o LowerCase)
          /\ AllDigits(SubSeq(s, slash + 1, Len(s)))

\* /^[a-zA-Z0-9_\-\.]{10,}$/
MatchesToken(s) == Len(s) >= 10 /\ AllIn(s, Alnum \o "_-.")

\* value.length, for the values that have one
HasLengthBelow(value, n) ==
    \/ value.k = "string" /\ Len(value.s) < n
    \/ value.k = "array" /\ Len(value.items) < n

\* the type names with a case of their own in the switch of validateInput
ValidatedTypes ==
    {"email", "phone", "url", "shopifyDomain", "shopifyId", "token", "number",
     "string", "array"}

\* variant: options.required is ignored, an empty value always passes
RequiredErrors_RequiredIgnored(value, type, options) ==
    IF IsEmptyValue(value) THEN Some(<<>>) ELSE Null

\* the two tests made before the switch: an option holding the list to return
\* at once, Null when the switch is to run
RequiredErrors(value, type, options) ==
    IF Flag(options, "required") /\ IsEmptyValue(value) THEN Some(<<type \o " is required">>)
    ELSE IF ~Flag(options, "required") /\ IsEmptyValue(value) THEN Some(<<>>)
    ELSE Null

\* the cases of the switch other than url, which the input sets leave out
TypeErrors(value, type, options) ==
    CASE type = "email" ->
            IF ~MatchesEmail(ToStr(value)) THEN <<"Invalid email format">> ELSE <<>>
      [] type = "phone" ->
            IF ~MatchesPhone(ToStr(value)) THEN <<"Invalid phone number format">> ELSE <<>>
      [] type = "shopifyDomain" ->
            IF ~MatchesShopifyDomain(ToStr(value))
            THEN <<"Invalid Shopify domain format">> ELSE <<>>
      [] type = "shopifyId" ->
            IF ~MatchesShopifyId(ToStr(value)) THEN <<"Invalid Shopify ID format">> ELSE <<>>
      [] type = "token" ->
            (IF ~MatchesToken(ToStr(value)) THEN <<"Invalid token format">> ELSE <<>>)
            \o (IF HasLengthBelow(value, 10)
                THEN <<"Token must be at least 10 characters long">> ELSE <<>>)
      [] type = "number" ->
            LET num == ToNumber(value)
            IN  IF num = JsNaN THEN <<"Must be a valid number">>
                ELSE (IF Defined(options, "min") /\ num.n < options["min"]
                      THEN <<"Must be at least " \o IntToStr(options["min"])>> ELSE <<>>)
                     \o (IF Defined(options, "max") /\ num.n > options["max"]
                         THEN <<"Must be at most " \o IntToStr(options["max"])>> ELSE <<>>)
      [] type = "string" ->
            IF value.k # "string" THEN <<"Must be a string">>
            ELSE (IF Truthy(options, "minLength") /\ Len(value.s) < options["minLength"]
                  THEN <<"Must be at least " \o IntToStr(options["minLength"])
                             \o " characters long">> ELSE <<>>)
                 \o (IF Truthy(options, "maxLength") /\ Len(value.s) > options["maxLength"]
                     THEN <<"Must be at most " \o IntToStr(options["maxLength"])
                                \o " characters long">> ELSE <<>>)
      [] type = "array" ->
            IF value.k # "array" THEN <<"Must be an array">>
            ELSE (IF Truthy(options, "minItems") /\ Len(value.items) < options["minItems"]
                  THEN <<"Must have at least " \o IntToStr(options["minItems"])
                             \o " items">> ELSE <<>>)
                 \o (IF Truthy(options, "maxItems") /\ Len(value.items) > options["maxItems"]
                     THEN <<"Must have at most " \o IntToStr(options["maxItems"])
                                \o " items">> ELSE <<>>)
      [] type \notin ValidatedTypes -> <<>>

validateInput(value, type, options) ==
    LET early == RequiredErrors(value, type, options)
    IN  IF early # Null THEN CHOOSE errors \in early : TRUE
        ELSE TypeErrors(value, type, options)

----------------------------------------------------------------------------
(* Calls of sanitizeInput and validateInput *)

AllTypes == SwitchTypes \cup {"shopifyId", "sku"}

NullishValues == {JsNull, JsUndefined}

StringValues ==
    { Str(s) : s \in {"", " ", "abc", " 42 ", "-7", "12px", "TRUE", "yes", "{}", "{",
                      " A@b.io", "a\tb", "my-shop.myshopify.com", "abcdefghij"} }

OtherValues ==
    StringValues \cup
    { Num(0), Num(5), Num(-3), JsNaN, Bool(TRUE), Bool(FALSE), JsObject,
      Arr(<<>>), Arr(<<Str(" a "), JsNull>>), Arr(<<Num(1), Str("2")>>) }

SanitizeOptions ==
    { NoOptions, [allowNull |-> TRUE], [allowNull |-> FALSE], [min |-> 0, max |-> 4],
      [maxLength |-> 2], [itemType |-> "number"], [maxItems |-> 1],
      [allowNull |-> TRUE, min |-> 1] }

ValidateOptions ==
    { NoOptions, [required |-> TRUE], [required |-> FALSE],
      [required |-> TRUE, min |-> 1, max |-> 4], [min |-> 1],
      [minLength |-> 2, maxLength |-> 3], [required |-> TRUE, minItems |-> 1, maxItems |-> 1] }

\* url has no case in the model of the two switches: it is passed only with
\* the values that return before the switch
SanitizeCalls ==
    (NullishValues \X AllTypes \X SanitizeOptions)
        \cup (OtherValues \X (AllTypes \ {"url"}) \X SanitizeOptions)

ValidateCalls ==
    ((NullishValues \cup {Str("")}) \X AllTypes \X ValidateOptions)
        \cup ((OtherValues \ {Str("")}) \X (AllTypes \ {"url"}) \X ValidateOptions)

SanitizeInput(input, type, options) ==
    /\ NotApplied
    /\ pure' = Returned("sanitizeInput", <<input, type, options>>,
                        sanitizeInput(input, type, options))
    /\ UNCHANGED <<now, windowVars, bucketVars, api>>

ValidateInput(value, type, options) ==
    /\ NotApplied
    /\ pure' = Returned("validateInput", <<value, type, options>>,
                        validateInput(value, type, options))
    /\ UNCHANGED <<now, windowVars, bucketVars, api>>

\* a caller sanitizing a value and then sanitizing the result again
SanitizeTwice(input, type, options) ==
    /\ NotApplied
    /\ LET once == sanitizeInput(input, type, options)
       IN  pure' = Returned("sanitizeInput twice", <<input, type, options>>,
                            <<once, sanitizeInput(once, type, options)>>)
    /\ UNCHANGED <<now, windowVars, bucketVars, api>>

\* the texts sanitized as Shopify domains: white space, a label, a suffix in
\* several spellings, and a tail
DomainTexts ==
    { pre \o label \o suffix \o post :
        pre \in {"", " "}, label \in {"", "Shop", "my-shop"},
        suffix \in {"", ".myshopify.com", ".MyShopify.COM", ".myshopify.co",
                    ".myshopify.com.myshopify.com"},
        post \in {"", " ", "m"} }

----------------------------------------------------------------------------
(* middleware.js: validateAndSanitizeRequest(data, schema).  schema is a   *)
(* function from field names to rules [type, options, validation], where   *)
(* omitted options or validation are the empty ones.                       *)

\* sanitizeInput(data[field], rules.type, rules.options)
SanitizedField(data, schema, field) ==
    sanitizeInput(IF field \in DOMAIN data THEN data[field] ELSE JsUndefined,
                  schema[field].type, schema[field].options)

\* variant: the raw value is validated, not the sanitized one
FieldErrors_OfRaw(data, schema, field) ==
    validateInput(IF field \in DOMAIN data THEN data[field] ELSE JsUndefined,
                  schema[field].type, schema[field].validation)

\* validateInput(sanitizedValue, rules.type, rules.validation)
FieldErrors(data, schema, field) ==
    validateInput(SanitizedField(data, schema, field),
                  schema[field].type, schema[field].validation)

validateAndSanitizeRequest(data, schema) ==
    LET failing == { field \in DOMAIN schema : Len(FieldErrors(data, schema, field)) > 0 }
        errors == [field \in failing |-> FieldErrors(data, schema, field)]
        sanitized == [field \in DOMAIN schema \ failing |->
                         SanitizedField(data, schema, field)]
    IN  IF failing # {}
        THEN [ threw |-> TRUE, ret |-> Null,
               err |-> Some(createValidationError("request_validation",
                                                   "Request validation failed", errors)) ]
        ELSE [ threw |-> FALSE, ret |-> Some(sanitized), err |-> Null ]

Rules ==
    { [type |-> "string", options |-> NoOptions, validation |-> [required |-> TRUE]],
      [type |-> "number", options |-> [min |-> 0, max |-> 4],
       validation |-> [required |-> TRUE, min |-> 1, max |-> 4]],
      [type |-> "email", options |-> NoOptions, validation |-> NoOptions],
      [type |-> "shopifyDomain", options |-> NoOptions, validation |-> [required |-> TRUE]],
      [type |-> "integer", options |-> NoOptions, validation |-> [required |-> TRUE]],
      [type |-> "string", options |-> [allowNull |-> TRUE],
       validation |-> [minLength |-> 2, maxLength |-> 3]] }

Schemas == UNION { [D -> Rules] : D \in SUBSET FieldNames }

RequestValues == {JsNull, Str(""), Str(" "), Str("abc"), Str(" 42 "), Str(" A@b.io"), Num(5)}

\* the request bodies: any of the schema's field names, and a field "note"
\* no schema names
RequestData ==
    LET named == UNION { [D -> RequestValues] : D \in SUBSET FieldNames }
    IN  named \cup { [field \in DOMAIN data \cup {"note"} |->
                        IF field = "note" THEN Str("x") ELSE data[field]] : data \in named }

ValidateAndSanitizeRequest(data, schema) ==
    /\ NotApplied
    /\ LET r == validateAndSanitizeRequest(data, schema)
       IN  pure' = Applied("validateAndSanitizeRequest", <<data, schema>>,
                           r.threw, r.ret, r.err)
    /\ UNCHANGED <<now, windowVars, bucketVars, api>>

----------------------------------------------------------------------------
(* apiClient.js: ApiClient.request, one call from its first attempt to its *)
(* return or throw.  api.phase is where the call stands: "fetching" in     *)
(* `await fetch`, "delaying" in `await this.delay`, "returned" or "threw". *)
(* A URL is its host name.                                                 *)

MaxRetries == 3

\* the constructor: options.retries || 3, options.retryDelay || 1000,
\* options.timeout || 30000; an option is Null when it is omitted
ApiClient(options) ==
    [ retries    |-> IF options.retries = Null \/ options.retries = Some(0)
                     THEN 3 ELSE TheOption(options.retries),
      retryDelay |-> IF options.retryDelay = Null \/ options.retryDelay = Some(0)
                     THEN 1000 ELSE TheOption(options.retryDelay),
      timeout    |-> IF options.timeout = Null \/ options.timeout = Some(0)
                     THEN 30000 ELSE TheOption(options.timeout) ]

\* getApiName: new URL(url).hostname
getApiName(url) == url

\* response.statusText: the reason phrase of the status
StatusText(status) ==
    CASE status = 200 -> "OK"
      [] status = 404 -> "Not Found"
      [] status = 429 -> "Too Many Requests"
      [] status = 500 -> "Internal Server Error"
      [] status = 503 -> "Service Unavailable"
      [] OTHER        -> ""

\* the error a failed attempt raises, as the catch block sees it
HttpError(url, status) ==
    [ name |-> "AppError", statusCode |-> Some(ExternalStatus(status)),
      message |-> "External API error from " \o getApiName(url) \o ": HTTP "
                      \o IntToStr(status) \o ": " \o StatusText(status),
      app |-> Some(createExternalApiError(getApiName(url), status,
                      "HTTP " \o IntToStr(status) \o ": " \o StatusText(status), JsNull)) ]

NativeError(name, message) ==
    [ name |-> name, statusCode |-> Null, message |-> message, app |-> Null ]

\* shouldRetry(error)
shouldRetry(error) ==
    \/ error.name = "AbortError"
    \/ \E code \in error.statusCode : code >= 500 /\ code < 600
    \/ Includes(error.message, "network")
    \/ Includes(error.message, "timeout")

\* the catch block's choice of lastError
Classify(url, error) ==
    IF error.name = "AbortError"
    THEN createExternalApiError(getApiName(url), 408, "Request timeout", JsNull)
    ELSE IF error.app # Null THEN TheOption(error.app)
    ELSE createExternalApiError(getApiName(url), 500,
             "Network error: " \o error.message, JsNull)

\* the call before it starts
NoRequest ==
    [ phase |-> "idle", url |-> "", client |-> ApiClient([retries |-> Null,
      retryDelay |-> Null, timeout |-> Null]), attempt |-> 0, fetches |-> 0,
      timerAt |-> Null, wakeAt |-> Null, delays |-> <<>>, outcomes |-> <<>>,
      lastError |-> Null, result |-> Null, thrown |-> Null ]

\* one pass of the loop up to `await fetch`: setTimeout(abort, timeout), fetch
StartAttempt(a, t) ==
    [a EXCEPT !.phase = "fetching", !.attempt = @ + 1, !.fetches = @ + 1,
              !.timerAt = Some(t + a.client.timeout), !.wakeAt = Null]

\* what attempt a.attempt met, at instant t
Outcome(a, kind, status, t) ==
    [attempt |-> a.attempt, kind |-> kind, status |-> status, at |-> t]

\* await this.delay(this.retryDelay * attempt); continue
Backoff(a, t) ==
    [a EXCEPT !.phase = "delaying",
              !.wakeAt = Some(t + a.client.retryDelay * a.attempt),
              !.delays = Append(@, a.client.retryDelay * a.attempt)]

\* variant: the last attempt may be retried too
MayRetry_LastToo(a, error) == a.attempt <= a.client.retries /\ shouldRetry(error)

\* attempt < this.retries && this.shouldRetry(error)
MayRetry(a, error) == a.attempt < a.client.retries /\ shouldRetry(error)

\* the catch block: clearTimeout, lastError, then retry or throw lastError
Catch(a, error, t) ==
    LET caught == [a EXCEPT !.timerAt = Null, !.lastError = Some(Classify(a.url, error))]
    IN  IF MayRetry(caught, error)
        THEN Backoff(caught, t)
        ELSE [caught EXCEPT !.phase = "threw", !.thrown = caught.lastError]

\* the branch `if (!response.ok)`, after clearTimeout
NotOk(a, status, t) ==
    LET error == HttpError(a.url, status)
        cleared == [a EXCEPT !.timerAt = Null]
    IN  IF status >= 400 /\ status < 500
        THEN Catch(cleared, error, t)
        ELSE LET failed == [cleared EXCEPT !.lastError = error.app]
             IN  IF failed.attempt < failed.client.retries
                 THEN Backoff(failed, t)
                 ELSE Catch(failed, error, t)

\* the inputs of a call, the responses and the failures of fetch
Urls == {"api.example.com", "api.mynetwork.io"}

ClientOptions ==
    [ retries : {Null} \cup { Some(n) : n \in 0..MaxRetries },
      retryDelay : {Null, Some(500)},
      timeout : {Null, Some(2000)} ]

OkStatuses == {200}

FailStatuses == {404, 503}

FetchFailures == {"fetch failed", "network timeout at: https://api.example.com/orders"}

Latency == 100

\* request(url): a client built with options starts its first attempt
Request(url, options) ==
    /\ api.phase = "idle"
    /\ api' = StartAttempt([NoRequest EXCEPT !.url = url, !.client = ApiClient(options)], now)
    /\ UNCHANGED <<now, windowVars, bucketVars, pure>>

\* the response arrives before the abort timer fires
Arrives ==
    /\ api.phase = "fetching"
    /\ now + Latency < TheOption(api.timerAt)
    /\ now' = now + Latency

\* a 2xx response whose body parses: the call returns
RespondOk(status) ==
    /\ Arrives
    /\ api' = [api EXCEPT !.phase = "returned", !.timerAt = Null,
                          !.outcomes = Append(@, Outcome(api, "ok", status, now')),
                          !.result = Some([status |-> status])]
    /\ UNCHANGED <<windowVars, bucketVars, pure>>

\* a 2xx response whose body is not JSON: response.json() throws
RespondBadBody(status) ==
    /\ Arrives
    /\ api' = Catch([api EXCEPT !.outcomes = Append(@, Outcome(api, "body", status, now'))],
                    NativeError("SyntaxError", "Unexpected token < in JSON at position 0"),
                    now')
    /\ UNCHANGED <<windowVars, bucketVars, pure>>

\* a response that is not ok
RespondNotOk(status) ==
    /\ Arrives
    /\ api' = NotOk([api EXCEPT !.outcomes = Append(@, Outcome(api, "status", status, now'))],
                    status, now')
    /\ UNCHANGED <<windowVars, bucketVars, pure>>

\* fetch rejects with a TypeError: the network failed
FetchRejects(message) ==
    /\ Arrives
    /\ api' = Catch([api EXCEPT !.outcomes = Append(@, Outcome(api, "network", 0, now'))],
                    NativeError("TypeError", message), now')
    /\ UNCHANGED <<windowVars, bucketVars, pure>>

\* the abort timer fires first: fetch rejects with an AbortError
TimeoutFires ==
    /\ api.phase = "fetching"
    /\ now' = TheOption(api.timerAt)
    /\ api' = Catch([api EXCEPT !.outcomes = Append(@, Outcome(api, "abort", 0, now'))],
                    NativeError("AbortError", "This operation was aborted"), now')
    /\ UNCHANGED <<windowVars, bucketVars, pure>>

\* the delay's timer fires: the loop goes on with the next attempt
DelayElapses ==
    /\ api.phase = "delaying"
    /\ now' = TheOption(api.wakeAt)
    /\ api' = StartAttempt(api, now')
    /\ UNCHANGED <<windowVars, bucketVars, pure>>

----------------------------------------------------------------------------
(* Initial values of the helpers' variables *)

InitPure == pure = NoCall

InitApi == api = NoRequest

InitIdleWindow ==
    /\ active = {}
    /\ InitWindow

SpecBucketInit ==
    /\ now = 0
    /\ InitIdleWindow
    /\ InitBucket
    /\ InitPure
    /\ InitApi

SpecBucketNext ==
    \/ \E shop \in Shops, requestCost \in Costs : WaitForAvailability(shop, requestCost)
    \/ \E i \in 1..MaxWaiters : ResumeAfterWait(i)
    \/ \E t \in BucketInstants : Tick(t)

SpecBucket == SpecBucketInit /\ [][SpecBucketNext]_vars

----------------------------------------------------------------------------
(* SpecBucketLive: the callers of one shop's bucket under the scheduling   *)
(* of the event loop: time reaches the instant every pending setTimeout    *)
(* was set for, and a timer that is due fires.                             *)

LiveShop == "a.myshopify.com"

\* time passes up to the instant a pending timer was set for
AdvanceToWake == \E i \in DOMAIN waiters : Tick(waiters[i].wakeAt)

\* a timer that is due fires
TimerFires == \E i \in 1..MaxWaiters : ResumeAfterWait(i)

SpecBucketLiveNext ==
    \/ \E requestCost \in Costs : WaitForAvailability(LiveShop, requestCost)
    \/ TimerFires
    \/ AdvanceToWake
    \/ \E t \in BucketInstants : Tick(t)

SpecBucketLive ==
    /\ SpecBucketInit
    /\ [][SpecBucketLiveNext]_vars
    /\ WF_vars(AdvanceToWake)
    /\ WF_vars(TimerFires)

----------------------------------------------------------------------------
(* Spec: the exported functions of the fixed-window limiter called directly *)
(* for one key, any of the five limit classes, at any of the instants.      *)

Init ==
    /\ now = 0
    /\ active \in { {c} : c \in CallInputs }
    /\ InitWindow
    /\ InitBucket
    /\ InitPure
    /\ InitApi

Next ==
    \/ \E c \in active, sweep \in BOOLEAN : CheckRateLimit(c[1], c[2], sweep)
    \/ \E c \in active : RecordSuccess(c[1], c[2])
    \/ \E c \in active : RecordFailure(c[1], c[2])
    \/ \E c \in active : GetRateLimitStatus(c[1], c[2])
    \/ \E c \in active : \E t \in Instants(c[2]) : Tick(t)

Spec == Init /\ [][Next]_vars

----------------------------------------------------------------------------
(* SpecSeqAuth: requests of the auth class for one key served one after     *)
(* another through withRateLimit, each handler resolving before the next    *)
(* request starts.                                                          *)

AuthCall == <<ReqShopA, "auth">>

SpecSeqAuthInit ==
    /\ now = 0
    /\ active = {AuthCall}
    /\ InitWindow
    /\ InitBucket
    /\ InitPure
    /\ InitApi

SpecSeqAuthNext ==
    \/ \E sweep \in BOOLEAN :
          inflight = <<>> /\ WithRateLimitCall(AuthCall[1], AuthCall[2], sweep)
    \/ HandlerSucceeds(1)
    \/ \E t \in Instants(AuthCall[2]) : Tick(t)

SpecSeqAuth == SpecSeqAuthInit /\ [][SpecSeqAuthNext]_vars

----------------------------------------------------------------------------------------------------------------------------------------
(* SpecApi: one ApiClient.request call, for every client configuration,    *)
(* with every response and failure at each attempt.                        *)

SpecApiInit ==
    /\ now = 0
    /\ InitIdleWindow
    /\ InitBucket
    /\ InitPure
    /\ InitApi

SpecApiNext ==
    \/ \E url \in Urls, options \in ClientOptions : Request(url, options)
    \/ \E status \in OkStatuses : RespondOk(status)
    \/ \E status \in OkStatuses : RespondBadBody(status)
    \/ \E status \in FailStatuses : RespondNotOk(status)
    \/ \E message \in FetchFailures : FetchRejects(message)
    \/ TimeoutFires
    \/ DelayElapses

SpecApi == SpecApiInit /\ [][SpecApiNext]_vars

----------------
(* SpecPure: the validation helpers, the error factories and the identity  *)
(* derivation, each applied to every input of its input set.               *)

SpecPureInit ==
    /\ now = 0
    /\ InitIdleWindow
    /\ InitBucket
    /\ InitPure
    /\ InitApi

SpecPureNext ==
    \/ \E field \in FieldNames, message \in Messages : CreateValidationError(field, message)
    \/ \E statusCode \in Statuses, message \in Messages :
          CreateExternalApiError(statusCode, message)
    \/ \E message \in Messages : CreateDatabaseError(message)
    \/ \E statusCode \in {Null} \cup {Some(c) : c \in Statuses}, message \in Messages :
          CreateShopifyApiError(statusCode, message)
    \/ \E retryAfter \in RetryAfters : CreateRateLimitError(retryAfter)
    \/ \E data \in Records, requiredFields \in RequiredLists :
          ValidateRequiredFields(data, requiredFields)
    \/ \E request \in RequestInputs, other \in RequestInputs :
          GetClientIdentifier(request, other)
    \/ \E c \in SanitizeCalls : SanitizeInput(c[1], c[2], c[3])
    \/ \E c \in ValidateCalls : ValidateInput(c[1], c[2], c[3])
    \/ \E text \in DomainTexts : SanitizeTwice(Str(text), "shopifyDomain", NoOptions)
    \/ \E data \in RequestData, schema \in Schemas :
          ValidateAndSanitizeRequest(data, schema)

SpecPure == SpecPureInit /\ [][SpecPureNext]_vars

----------------------------------------------------------------------------
(* Properties of the fixed-window limiter, read off the last operation:    *)
(* last.before is the entry of the key when the call arrived, last.at the  *)
(* instant, and rateLimitStore[last.key] the entry the call left.          *)

TheOne(S) == CHOOSE x \in S : TRUE

LastConfig == RATE_LIMITS[last.type]

\* the count of the key in its current, non-expired window when the call arrived
ArrivalCount ==
    IF last.before # Null /\ last.at <= TheOne(last.before).resetTime
    THEN TheOne(last.before).count
    ELSE 0

\* the entry of the key after the call, as an option
After == MapGet(rateLimitStore, last.key)

(* C1: a checkRateLimit call throws a RATE_LIMIT error if and only if the   *)
(* key's count in its current, non-expired window is already >= maxRequests *)
(* when the call arrives; otherwise it increments the count by exactly 1    *)
(* and returns limit = maxRequests, remaining = maxRequests - newCount and  *)
(* reset = the window's resetTime.                                          *)
C1_ThrowsIffLimitReached ==
    last.op = "checkRateLimit" =>
        /\ last.threw <=> (ArrivalCount >= LastConfig.maxRequests)
        /\ last.threw =>
              /\ last.ret = Null
              /\ \A e \in last.err : e.type = "RATE_LIMIT_ERROR"
              /\ last.err # Null
        /\ ~last.threw =>
              /\ After # Null
              /\ TheOne(After).count = ArrivalCount + 1
              /\ last.ret # Null
              /\ \A r \in last.ret :
                    /\ r.limit = LastConfig.maxRequests
                    /\ r.remaining = LastConfig.maxRequests - (ArrivalCount + 1)
                    /\ r.reset = TheOne(After).resetTime

\* a call was rejected on a window that had reached its maximum
C1_Witness ==
    /\ last.op = "checkRateLimit"
    /\ last.threw
    /\ last.before # Null
    /\ TheOne(last.before).count = LastConfig.maxRequests
    /\ last.at < TheOne(last.before).resetTime

(* C2: the call that follows maxRequests admitted calls of one window,     *)
(* made at an instant now <= resetTime (now = resetTime included), throws   *)
(* RATE_LIMIT and the retryAfter it carries is strictly greater than 0.    *)
C2_RetryAfterPositive ==
    ( /\ last.op = "checkRateLimit"
      /\ last.before # Null
      /\ last.at <= TheOne(last.before).resetTime
      /\ TheOne(last.before).count = LastConfig.maxRequests )
    => /\ last.threw
       /\ \A e \in last.err : e.type = "RATE_LIMIT_ERROR" /\ e.context.retryAfter > 0

(* C3: a checkRateLimit call that is the first for its key, or that arrives *)
(* at an instant now > resetTime of the stored window (whatever the stored  *)
(* count), starts a new window with resetTime = now + windowMs, is admitted *)
(* and leaves count = 1.                                                    *)
C3_NewWindowAdmits ==
    ( /\ last.op = "checkRateLimit"
      /\ \/ last.before = Null
         \/ last.at > TheOne(last.before).resetTime )
    => /\ ~last.threw
       /\ After # Null
       /\ TheOne(After).count = 1
       /\ TheOne(After).resetTime = last.at + LastConfig.windowMs
       /\ TheOne(After).firstRequest = last.at

\* maxRequests calls were admitted, the window has passed, and the next call succeeds
C3_Witness ==
    /\ last.op = "checkRateLimit"
    /\ last.before # Null
    /\ TheOne(last.before).count = LastConfig.maxRequests
    /\ last.at > TheOne(last.before).resetTime
    /\ ~last.threw

(* C8: recordSuccess decrements the key's count by 1 only for the class     *)
(* whose skipSuccessfulRequests flag is set (auth), recordFailure only for  *)
(* the class whose skipFailedRequests flag is set (shopify); for every      *)
(* other class the entry is left unchanged; no count goes below 0 and no    *)
(* entry is created for a key that has none.                                *)
DecrementedOnce ==
    IF last.before # Null /\ TheOne(last.before).count > 0
    THEN After = {[TheOne(last.before) EXCEPT !.count = @ - 1]}
    ELSE After = last.before

C8_RecordDecrementsPerFlag ==
    /\ last.op = "recordSuccess" =>
          IF last.type = "auth" THEN DecrementedOnce ELSE After = last.before
    /\ last.op = "recordFailure" =>
          IF last.type = "shopify" THEN DecrementedOnce ELSE After = last.before
    /\ \A t \in Types :
          /\ RATE_LIMITS[t].skipSuccessfulRequests <=> t = "auth"
          /\ RATE_LIMITS[t].skipFailedRequests <=> t = "shopify"
    /\ \A k \in DOMAIN rateLimitStore : rateLimitStore[k].count >= 0

\* a failed shopify request gave its slot back
C8_Witness ==
    /\ last.op = "recordFailure"
    /\ last.type = "shopify"
    /\ last.before # Null
    /\ TheOne(last.before).count > 0
    /\ After = {[TheOne(last.before) EXCEPT !.count = @ - 1]}

(* C9: auth requests for one key issued one after another through         *)
(* withRateLimit, each handler completing successfully before the next      *)
(* starts, are all admitted, however many are issued within one window,     *)
(* and the key's count is back to its value at arrival after each request.  *)
C9_SequentialAuthAdmitted ==
    /\ last.op # "withRateLimit:rejected"
    /\ ~last.threw
    /\ last.op = "withRateLimit:success" =>
          /\ After # Null
          /\ \A r \in last.ret :
                TheOne(After).count = LastConfig.maxRequests - r.remaining - 1
    /\ last.op = "withRateLimit:admitted" =>
          TheOne(After).count = ArrivalCount + 1

\* more than maxRequests requests were served within the first window
C9_Witness ==
    /\ last.op = "withRateLimit:success"
    /\ served > RATE_LIMITS.auth.maxRequests
    /\ TheOne(After).firstRequest = 0
    /\ now < TheOne(After).resetTime

(* C10: once the current instant has passed an entry's resetTime, every     *)
(* operation that looks the entry up treats the key as having count 0:      *)
(* getRateLimitStatus reports remaining = maxRequests, and recordSuccess    *)
(* and recordFailure do not modify the stale entry.                         *)
C10_ExpiredCountsAsZero ==
    ( /\ last.before # Null
      /\ last.at > TheOne(last.before).resetTime )
    => /\ last.op = "getRateLimitStatus" =>
             \A r \in last.ret : r.remaining = LastConfig.maxRequests
       /\ last.op \in {"recordSuccess", "recordFailure"} => After = last.before
       /\ last.op = "checkRateLimit" => ~last.threw /\ TheOne(After).count = 1

----------------------------------------------------------------------------
(* Properties of the token bucket, read off the last step of a              *)
(* waitForAvailability call: lastAcq.before is the shop's bucket when the   *)
(* step began, lastAcq.refilled the bucket after the lazy refill, and       *)
(* buckets[BucketKey(lastAcq.shop)] the bucket the step left.               *)

BucketAfter == buckets[BucketKey(lastAcq.shop)]

(* C4: in every reachable state of every bucket 0 <= tokens <= maxTokens,   *)
(* under any interleaving of concurrent waitForAvailability calls of any    *)
(* cost >= 1 (cost > maxTokens included), refills and clock advances.       *)
C4_TokensWithinBounds ==
    \A k \in DOMAIN buckets :
        /\ 0 <= buckets[k].tokens
        /\ buckets[k].tokens <= buckets[k].maxTokens
        /\ buckets[k].maxTokens = BucketMaxTokens

\* a call of cost > maxTokens resumed while another call is still waiting,
\* and the cap held the bucket at maxTokens
C4_Witness ==
    /\ lastAcq.op = "resume"
    /\ lastAcq.cost > BucketMaxTokens
    /\ Len(waiters) >= 1
    /\ BucketAfter.tokens = BucketMaxTokens

(* C5: when waitForAvailability finds, after the lazy refill, tokens >=     *)
(* cost (in particular on the first call for a shop, whose bucket starts    *)
(* with tokens = maxTokens = 40), it returns without suspending, decreases  *)
(* tokens by exactly cost and returns remainingTokens = the new tokens and  *)
(* maxTokens = 40.                                                          *)
C5_ImmediateGrant ==
    lastAcq.op \in {"grant", "suspend"} =>
        /\ lastAcq.before = Null => TheOne(lastAcq.refilled).tokens = 40
        /\ TheOne(lastAcq.refilled).tokens >= lastAcq.cost =>
              /\ lastAcq.op = "grant"
              /\ lastAcq.wakeAt = Null
              /\ BucketAfter.tokens = TheOne(lastAcq.refilled).tokens - lastAcq.cost
              /\ lastAcq.ret =
                    {[remainingTokens |-> BucketAfter.tokens, maxTokens |-> 40]}

\* the first call for a shop, of cost maxTokens, granted at once
C5_Witness ==
    /\ lastAcq.op = "grant"
    /\ lastAcq.before = Null
    /\ lastAcq.cost = BucketMaxTokens
    /\ BucketAfter.tokens = 0

(* C6: when waitForAvailability finds, after the lazy refill, tokens <      *)
(* cost, it suspends the caller for waitMs = ceil((cost - tokens) /         *)
(* refillRate * 1000) computed from the tokens seen before suspending, and  *)
(* on resuming sets tokens = min(maxTokens, tokens + cost) from the tokens  *)
(* current at resume time, without re-checking and without deducting cost.  *)
C6_WaitThenGrant ==
    /\ ( /\ lastAcq.op \in {"grant", "suspend"}
         /\ TheOne(lastAcq.refilled).tokens < lastAcq.cost )
       => /\ lastAcq.op = "suspend"
          /\ lastAcq.ret = Null
          /\ BucketAfter.tokens = TheOne(lastAcq.refilled).tokens
          /\ \A w \in lastAcq.waitTime :
                LET deficit == (lastAcq.cost - TheOne(lastAcq.refilled).tokens) * 1000
                IN  /\ w * BucketRefillRate >= deficit
                    /\ (w - 1) * BucketRefillRate < deficit
                    /\ lastAcq.wakeAt = {lastAcq.at + w}
          /\ lastAcq.waitTime # Null
    /\ lastAcq.op = "resume" =>
          /\ lastAcq.at >= TheOne(lastAcq.wakeAt)
          /\ BucketAfter.tokens =
                Min(BucketMaxTokens, TheOne(lastAcq.before).tokens + lastAcq.cost)
          /\ lastAcq.ret =
                {[remainingTokens |-> BucketAfter.tokens, maxTokens |-> BucketMaxTokens]}

\* a call of cost 1 that found the bucket empty has waited and was granted
C6_Witness ==
    /\ lastAcq.op = "resume"
    /\ lastAcq.cost = 1
    /\ TheOne(lastAcq.before).tokens = 0
    /\ BucketAfter.tokens = 1

(* C7: at every waitForAvailability access, before the availability check, *)
(* tokens become min(maxTokens, tokens + floor(elapsedSeconds * refillRate)) *)
(* with elapsedSeconds the time since lastRefill; and tokens never grow on  *)
(* any step other than this lazy refill and the post-wait grant.           *)
RefilledAsElapsed ==
    ( /\ lastAcq.op \in {"grant", "suspend"}
      /\ lastAcq.before # Null )
    => LET b       == TheOne(lastAcq.before)
           elapsed == lastAcq.at - b.lastRefill
       IN  \E n \in 0..(2 * BucketMaxTokens) :
              /\ n * 1000 <= elapsed * BucketRefillRate
              /\ elapsed * BucketRefillRate < (n + 1) * 1000
              /\ TheOne(lastAcq.refilled).tokens = Min(BucketMaxTokens, b.tokens + n)

TokensGrowOnlyByAccess ==
    \A k \in DOMAIN buckets :
        buckets'[k].tokens > buckets[k].tokens =>
            /\ lastAcq'.at = now
            /\ k = BucketKey(lastAcq'.shop)
            /\ \/ /\ lastAcq'.op \in {"grant", "suspend"}
                  /\ buckets[k].tokens < TheOne(lastAcq'.refilled).tokens
               \/ /\ lastAcq'.op = "resume"
                  /\ buckets'[k].tokens <= buckets[k].tokens + lastAcq'.cost

C7_LazyRefillOnly == []RefilledAsElapsed /\ [][TokensGrowOnlyByAccess]_vars

\* an access 1.5 token periods after the last refill added one token
C7_Witness ==
    /\ lastAcq.op \in {"grant", "suspend"}
    /\ lastAcq.before # Null
    /\ ((lastAcq.at - TheOne(lastAcq.before).lastRefill) * BucketRefillRate) % 1000 # 0
    /\ TheOne(lastAcq.refilled).tokens = TheOne(lastAcq.before).tokens + 1

----------------------------------------------------------------------------
(* Properties of the helpers, read off the last application: pure.args are *)
(* the arguments, pure.ret the returned value, pure.err the thrown error.  *)

PureRet == TheOne(pure.ret)

PureErr == TheOne(pure.err)

\* C14: every error factory pins the kind, the HTTP status and the severity of
\* the error it builds: validation (VALIDATION_ERROR, 400, low), database
\* (DATABASE_ERROR, 500, high), rate limit (RATE_LIMIT_ERROR, 429, medium, with
\* context.retryAfter the given value), Shopify API (SHOPIFY_API_ERROR, the
\* given status, high iff it is >= 500), external API (EXTERNAL_API_ERROR, the
\* given status when it lies in 400..599 and 502 otherwise, high iff the given
\* status is >= 500), so an external API error's status lies in 400..599.
C14_FactoriesPinKindStatusSeverity ==
    /\ pure.fn = "createValidationError" =>
          /\ PureRet.type = "VALIDATION_ERROR"
          /\ PureRet.statusCode = 400
          /\ PureRet.severity = "low"
    /\ pure.fn = "createDatabaseError" =>
          /\ PureRet.type = "DATABASE_ERROR"
          /\ PureRet.statusCode = 500
          /\ PureRet.severity = "high"
    /\ pure.fn = "createRateLimitError" =>
          /\ PureRet.type = "RATE_LIMIT_ERROR"
          /\ PureRet.statusCode = 429
          /\ PureRet.severity = "medium"
          /\ PureRet.context.retryAfter = pure.args[1]
    /\ (pure.fn = "createShopifyApiError" /\ pure.args[1] # Null) =>
          LET given == TheOne(pure.args[1])
          IN  /\ PureRet.type = "SHOPIFY_API_ERROR"
              /\ PureRet.statusCode = given
              /\ (PureRet.severity = "high") = (given >= 500)
              /\ PureRet.severity \in {"high", "medium"}
    /\ pure.fn = "createExternalApiError" =>
          LET given == pure.args[1]
          IN  /\ PureRet.type = "EXTERNAL_API_ERROR"
              /\ PureRet.statusCode = (IF given \in 400..599 THEN given ELSE 502)
              /\ (PureRet.severity = "high") = (given >= 500)
              /\ PureRet.severity \in {"high", "medium"}
              /\ PureRet.statusCode \in 400..599

\* an external API error for a status outside 400..599, reported as 502
C14_Witness ==
    /\ pure.fn = "createExternalApiError"
    /\ pure.args[1] = 600
    /\ PureRet.statusCode = 502
    /\ PureRet.severity = "high"

\* the position in requiredFields of the j-th listed field that is absent,
\* null, undefined or empty in data
NthAbsent(data, requiredFields, j) ==
    CHOOSE i \in 1..Len(requiredFields) :
        /\ requiredFields[i] \notin DOMAIN data \/ IsEmptyValue(data[requiredFields[i]])
        /\ Cardinality({ m \in 1..i : requiredFields[m] \notin DOMAIN data
                                       \/ IsEmptyValue(data[requiredFields[m]]) }) = j

\* C19: validateRequiredFields returns true when every listed field is in data
\* with a value other than null, undefined and ""; otherwise it throws one
\* VALIDATION error whose context.value and message list exactly the listed
\* fields that are absent, null, undefined or empty, in the order of the list.
C19_RequiredFieldsListed ==
    pure.fn = "validateRequiredFields" =>
        LET data == pure.args[1]
            requiredFields == pure.args[2]
            absent == { i \in 1..Len(requiredFields) :
                          requiredFields[i] \notin DOMAIN data
                          \/ IsEmptyValue(data[requiredFields[i]]) }
        IN  IF absent = {}
            THEN ~pure.threw /\ pure.ret = Some(TRUE)
            ELSE /\ pure.threw
                 /\ Cardinality(pure.err) = 1
                 /\ PureErr.type = "VALIDATION_ERROR"
                 /\ Len(PureErr.context.value) = Cardinality(absent)
                 /\ \A j \in 1..Cardinality(absent) :
                       PureErr.context.value[j] =
                           requiredFields[NthAbsent(data, requiredFields, j)]
                 /\ PureErr.message =
                       "Validation failed for required_fields: Missing required fields: "
                           \o Join(PureErr.context.value, ", ")

\* two listed fields are reported in list order, one empty and one absent,
\* against the order of the record
C19_Witness ==
    /\ pure.fn = "validateRequiredFields"
    /\ pure.args[2] = <<"shop", "email">>
    /\ DOMAIN pure.args[1] = {"shop"}
    /\ pure.args[1]["shop"] = Str("")
    /\ pure.threw
    /\ PureErr.context.value = <<"shop", "email">>
    /\ PureErr.message =
          "Validation failed for required_fields: Missing required fields: shop, email"

\* id is entry with the white space at its two ends removed
IsTrimOf(id, entry) ==
    \E a \in 0..Len(entry) : \E b \in a..Len(entry) :
        /\ id = SubSeq(entry, a + 1, b)
        /\ \A i \in (1..a) \cup ((b + 1)..Len(entry)) : CharAt(entry, i) \in WhiteSpace
        /\ id = "" \/ (CharAt(id, 1) \notin WhiteSpace /\ CharAt(id, Len(id)) \notin WhiteSpace)

\* entry is the part of header before its first comma
IsFirstEntry(entry, header) ==
    /\ ~Includes(entry, ",")
    /\ \/ entry = header
       \/ Len(header) > Len(entry) /\ SubSeq(header, 1, Len(entry) + 1) = entry \o ","

\* C18: the identity of a request is its shop parameter when that is present
\* and non-empty, else the trimmed first comma-separated entry of its
\* X-Forwarded-For header when that is present, else its X-Real-Ip header when
\* that is present, else "unknown"; so two requests that agree on the source
\* that decides, and differ only in lower sources, get the same window key.
C18_IdentityByPriority ==
    pure.fn = "getClientIdentifier" =>
        /\ \A j \in 1..2 :
              LET request == pure.args[j]
                  id == PureRet.ids[j]
              IN  /\ request.shop # "" => id = request.shop
                  /\ (request.shop = "" /\ request.forwarded # "") =>
                        \E entry \in { SubSeq(request.forwarded, 1, n) :
                                          n \in 0..Len(request.forwarded) } :
                            IsFirstEntry(entry, request.forwarded) /\ IsTrimOf(id, entry)
                  /\ (request.shop = "" /\ request.forwarded = "" /\ request.realIp # "") =>
                        id = request.realIp
                  /\ (request.shop = "" /\ request.forwarded = "" /\ request.realIp = "") =>
                        id = "unknown"
        /\ LET r1 == pure.args[1]
               r2 == pure.args[2]
           IN  \/ r1.shop # "" /\ r1.shop = r2.shop
               \/ r1.shop = "" /\ r2.shop = "" /\ r1.forwarded # "" /\ r1.forwarded = r2.forwarded
               => PureRet.keys[1] = PureRet.keys[2]

\* two requests without shop parameter, with the same X-Forwarded-For list and
\* different X-Real-Ip, share the key of the trimmed first entry
C18_Witness ==
    /\ pure.fn = "getClientIdentifier"
    /\ pure.args[1] = [shop |-> "", forwarded |-> " 10.0.0.2 , 10.0.0.9", realIp |-> "10.0.0.7"]
    /\ pure.args[2] = [shop |-> "", forwarded |-> " 10.0.0.2 , 10.0.0.9", realIp |-> ""]
    /\ PureRet.ids = <<"10.0.0.2", "10.0.0.2">>
    /\ PureRet.keys[1] = PureRet.keys[2]
    /\ PureRet.keys[1] = "api:10.0.0.2:orders"

\* C11: validateAndSanitizeRequest is all-or-nothing.  When some field of the
\* schema has validation errors (the errors of its sanitized value), the call
\* throws one VALIDATION error whose context.value maps exactly the failing
\* fields to their non-empty message lists, and returns no record; otherwise
\* it returns a record whose keys are exactly the schema's field names, each
\* holding the sanitized value, whatever other fields the input has.
C11_AllOrNothing ==
    pure.fn = "validateAndSanitizeRequest" =>
        LET data == pure.args[1]
            schema == pure.args[2]
            raw(field) == IF field \in DOMAIN data THEN data[field] ELSE JsUndefined
            clean(field) == sanitizeInput(raw(field), schema[field].type, schema[field].options)
            messages(field) ==
                validateInput(clean(field), schema[field].type, schema[field].validation)
            failing == { field \in DOMAIN schema : messages(field) # <<>> }
        IN  IF failing # {}
            THEN /\ pure.threw
                 /\ pure.ret = Null
                 /\ Cardinality(pure.err) = 1
                 /\ PureErr.type = "VALIDATION_ERROR"
                 /\ DOMAIN PureErr.context.value = failing
                 /\ \A field \in failing :
                       /\ Len(PureErr.context.value[field]) > 0
                       /\ PureErr.context.value[field] = messages(field)
            ELSE /\ ~pure.threw
                 /\ pure.err = Null
                 /\ DOMAIN PureRet = DOMAIN schema
                 /\ \A field \in DOMAIN schema : PureRet[field] = clean(field)

\* a request whose shop passes and whose email fails, with a field the schema
\* does not name: only email is reported and nothing is returned
C11_Witness ==
    /\ pure.fn = "validateAndSanitizeRequest"
    /\ DOMAIN pure.args[1] = {"shop", "email", "note"}
    /\ DOMAIN pure.args[2] = {"shop", "email"}
    /\ pure.threw
    /\ pure.ret = Null
    /\ DOMAIN PureErr.context.value = {"email"}
    /\ PureErr.context.value["email"] = <<"Invalid email format">>

\* C12: on an empty value (null, undefined or "") validateInput returns, for
\* every type and whatever the other options, exactly one message containing
\* "required" when options.required is true and no message when it is not.
C12_EmptyValueRequired ==
    (pure.fn = "validateInput" /\ IsEmptyValue(pure.args[1])) =>
        IF Flag(pure.args[3], "required")
        THEN Len(PureRet) = 1 /\ Includes(PureRet[1], "required")
        ELSE PureRet = <<>>

\* an empty string checked as a required number with bounds: one message,
\* none about the bounds
C12_Witness ==
    /\ pure.fn = "validateInput"
    /\ pure.args = <<Str(""), "number", [required |-> TRUE, min |-> 1, max |-> 4]>>
    /\ PureRet = <<"number is required">>

\* C13: sanitizeInput of null or undefined returns null when options.allowNull
\* is set; otherwise 0 for number and integer, false for boolean, [] for
\* array, {} for json, and "" for every other type.
C13_NullGivesTypeDefault ==
    (pure.fn = "sanitizeInput" /\ IsNullish(pure.args[1])) =>
        LET type == pure.args[2]
        IN  IF Flag(pure.args[3], "allowNull") THEN PureRet = JsNull
            ELSE CASE type \in {"number", "integer"} -> PureRet = Num(0)
                   [] type = "boolean" -> PureRet = Bool(FALSE)
                   [] type = "array"   -> PureRet = Arr(<<>>)
                   [] type = "json"    -> PureRet = JsObject
                   [] OTHER            -> PureRet = Str("")

\* C20: sanitizing a string as a Shopify domain and sanitizing the result
\* again gives the same text; the text ends with ".myshopify.com", and is the
\* trimmed lower-case input itself when that already ends with the suffix and
\* that input followed by one suffix when it does not.
C20_ShopifyDomainIdempotent ==
    (pure.fn = "sanitizeInput twice" /\ pure.args[2] = "shopifyDomain") =>
        LET once == PureRet[1].s
            twice == PureRet[2].s
            domain == ToLowerCase(Trim(pure.args[1].s))
        IN  /\ twice = once
            /\ EndsWith(once, ".myshopify.com")
            /\ IF EndsWith(domain, ".myshopify.com")
               THEN once = domain
               ELSE once = domain \o ".myshopify.com"

\* an input in capitals that ends with the suffix after trimming and lower
\* casing: nothing is appended, the first time or the second
C20_Witness ==
    /\ pure.fn = "sanitizeInput twice"
    /\ pure.args[1] = Str(" Shop.MyShopify.COM ")
    /\ PureRet = <<Str("shop.myshopify.com"), Str("shop.myshopify.com")>>


----------------------------------------------------------------------------
(* Properties of ApiClient.request, read off the log of its attempts:      *)
(* api.outcomes[k] is what attempt k met, api.delays[k] the delay taken    *)
(* after attempt k.                                                        *)

\* C15: an attempt that receives a response with status 400..499 is the last
\* one: no delay is taken after it and no further fetch is made (so a call
\* whose first attempt gets such a status makes exactly one fetch), and the
\* call throws an EXTERNAL_API error with that status.
C15_ClientErrorNotRetried ==
    \A k \in 1..Len(api.outcomes) :
        (api.outcomes[k].kind = "status" /\ api.outcomes[k].status \in 400..499) =>
            /\ api.fetches = k
            /\ Len(api.delays) = k - 1
            /\ api.phase = "threw"
            /\ TheOption(api.thrown).type = "EXTERNAL_API_ERROR"
            /\ TheOption(api.thrown).statusCode = api.outcomes[k].status

\* C16: when attempt k fails with a 5xx response, a network error thrown by
\* fetch or a timeout, and k < retries, the call waits retryDelay * k and
\* attempt k + 1 follows that wait; it throws only after the attempt numbered
\* retries has failed.
C16_FailuresRetriedWithBackoff ==
    \A k \in 1..Len(api.outcomes) :
        LET failed == \/ api.outcomes[k].kind \in {"network", "abort"}
                      \/ api.outcomes[k].kind = "status" /\ api.outcomes[k].status \in 500..599
        IN  (failed /\ k < api.client.retries) =>
                /\ Len(api.delays) >= k
                /\ api.delays[k] = api.client.retryDelay * k
                /\ IF Len(api.outcomes) = k
                   THEN /\ api.phase \in {"delaying", "fetching"}
                        /\ api.phase = "delaying" =>
                              api.wakeAt = Some(api.outcomes[k].at + api.client.retryDelay * k)
                   ELSE api.outcomes[k + 1].at >= api.outcomes[k].at + api.client.retryDelay * k


----------------------------------------------------------------------------
(* Liveness of the token bucket *)

\* a step leaves every suspended call as it is, with the wake instant it was
\* given, or resumes it once that instant is reached, and then it returns
WaitRunsAsScheduled ==
    \A i \in DOMAIN waiters :
        LET w == waiters[i]
        IN  \/ i \in DOMAIN waiters' /\ waiters'[i] = w
            \/ i > 1 /\ (i - 1) \in DOMAIN waiters' /\ waiters'[i - 1] = w
            \/ /\ now >= w.wakeAt
               /\ Len(waiters') = Len(waiters) - 1
               /\ lastAcq'.op = "resume"
               /\ lastAcq'.cost = w.cost
               /\ lastAcq'.wakeAt = Some(w.wakeAt)
               /\ lastAcq'.ret # Null

\* C17: every waitForAvailability call resolves, whatever its cost and
\* whatever the other callers of the bucket do: a call that suspends stays
\* suspended with the wake instant fixed when it began to wait, resumes once
\* that instant is reached and then returns, so that eventually no call is
\* left waiting.
C17_EveryWaitResolves ==
    /\ [][WaitRunsAsScheduled]_vars
    /\ <>[](waiters = <<>>)

\* a call of cost 41, more than the bucket can ever hold, has resumed and
\* returned while another call was still waiting
C17_Witness ==
    /\ lastAcq.op = "resume"
    /\ lastAcq.cost = BucketMaxTokens + 1
    /\ lastAcq.ret # Null
    /\ waiters # <<>>


-----------------------------------------------------------------------------
(* SpecLimit: requests for one key of a class that counts successful        *)
(* requests, served through withRateLimit one after another; each handler   *)
(* resolves or throws before the next request starts.                       *)

\* the last instant of the window opened at time 0 and the first one after it
LimitInstants(type) == { Config(type).windowMs + j : j \in {0, 1} }

SpecLimitInit ==
    /\ now = 0
    /\ active \in { {<<ReqShopA, type>>} : type \in {"shopify", "token"} }
    /\ InitWindow
    /\ InitBucket
    /\ InitPure
    /\ InitApi

SpecLimitNext ==
    \/ \E c \in active, sweep \in BOOLEAN :
          inflight = <<>> /\ WithRateLimitCall(c[1], c[2], sweep)
    \/ HandlerSucceeds(1)
    \/ HandlerFails(1)
    \/ \E c \in active : \E t \in LimitInstants(c[2]) : Tick(t)

SpecLimit == SpecLimitInit /\ [][SpecLimitNext]_vars

\* the limit class of the key this behaviour is about
ActiveType == TheOne(active)[2]

\* C21: for a class that counts successful requests (skipSuccessfulRequests
\* false), the requests admitted by withRateLimit in one window of one key
\* whose handler completed successfully never number more than maxRequests,
\* whatever rejected or failed requests are interleaved.
C21_SuccessesWithinLimit ==
    ~Config(ActiveType).skipSuccessfulRequests =>
        \A w \in DOMAIN history : history[w] <= Config(ActiveType).maxRequests



-----------------------------------------------------------------------------
(* SpecPace: one shop whose bucket was created at time 0 and emptied at     *)
(* that instant by BucketMaxTokens calls of cost 1, each granted at once;   *)
(* the calls of cost 1 that follow, one after another.                      *)

RECURSIVE AfterBurst(_, _, _)
\* the buckets after n calls waitForAvailability(shop, 1) at time 0, each
\* finding a token
AfterBurst(bs, shop, n) ==
    IF n = 0 THEN bs
    ELSE AfterBurst(MapSet(bs, BucketKey(shop),
                           Consume(Refill(GetOrCreate(bs, shop, 0), 0), 1)),
                    shop, n - 1)

SpecPaceInit ==
    /\ now = 0
    /\ InitIdleWindow
    /\ buckets = AfterBurst(<<>>, LiveShop, BucketMaxTokens)
    /\ waiters = <<>>
    /\ acquires = 0
    /\ lastAcq = NoAcquire
    /\ InitPure
    /\ InitApi

SpecPaceNext ==
    \/ waiters = <<>> /\ WaitForAvailability(LiveShop, 1)
    \/ ResumeAfterWait(1)
    \/ \E t \in BucketInstants : Tick(t)

SpecPace == SpecPaceInit /\ [][SpecPaceNext]_vars

\* the calls that have resolved since the bucket was created: the burst and
\* the later calls that are not suspended
Resolved == BucketMaxTokens + acquires - Len(waiters)

\* C22: the calls waitForAvailability(shop, 1) resolved by T seconds after
\* the bucket was created number at most maxTokens + refillRate * T, also
\* when no two calls overlap (now is T in milliseconds).
C22_PacedToQuota ==
    1000 * Resolved <= 1000 * BucketMaxTokens + BucketRefillRate * now


-----------------------------------------------------------------------------
(* Concurrent callers waiting on one bucket *)

\* a step in which the suspended call i resumes
Resumes(i) ==
    /\ i \in DOMAIN waiters
    /\ Len(waiters') < Len(waiters)
    /\ waiters' = RemoveAt(waiters, i)

\* the resumed call is granted on its own account: tokens rise by its cost
\* (capped), nothing is refilled or re-checked, the other waiters keep their
\* timers
GrantedIndependently ==
    \A i \in 1..MaxWaiters :
        Resumes(i) =>
            LET key == BucketKey(waiters[i].shop)
            IN  /\ buckets'[key].tokens =
                       Min(BucketMaxTokens, buckets[key].tokens + waiters[i].cost)
                /\ buckets'[key].lastRefill = buckets[key].lastRefill
                /\ \A k \in DOMAIN buckets \ {key} : buckets'[k] = buckets[k]

\* C23: callers waiting on one bucket are granted independently of each
\* other: a suspended call whose timer is due can resume whatever the bucket
\* holds, and its resumption raises tokens by its own cost (capped at
\* maxTokens) without a refill or a re-check, so several waiters raise
\* tokens by the sum of their costs.
C23_WaitersGrantedIndependently ==
    /\ [](\A i \in DOMAIN waiters :
              now >= waiters[i].wakeAt => ENABLED ResumeAfterWait(i))
    /\ [][GrantedIndependently]_vars

\* two calls of cost 1 found the bucket of one shop empty at time 0, both
\* suspended for one refill period (500 ms) and both have resumed by then:
\* cost 2 granted and tokens raised from 0 to 2, while the period refills
\* one token
C23_Witness ==
    /\ waiters = <<>>
    /\ acquires = 3
    /\ now = 500
    /\ lastAcq.op = "resume" /\ lastAcq.cost = 1 /\ lastAcq.wakeAt = Some(500)
    /\ TheOption(lastAcq.before).tokens = 1
    /\ buckets[BucketKey(lastAcq.shop)].tokens = 2
    /\ buckets[BucketKey(lastAcq.shop)].lastRefill = 0
    /\ TokensToAdd(buckets[BucketKey(lastAcq.shop)], now) = 1


-----------------------------------------------------------------------------
(* SpecShopify: one ShopifyApiClient.request call for one shop, whose bucket *)
(* is new or was emptied at time 0: the call awaits                         *)
(* waitForAvailability(shop, 1), then runs the inherited request loop, and  *)
(* its catch converts an EXTERNAL_API error into a SHOPIFY_API error.       *)

\* the calls of waitForAvailability that have resolved
Grants == acquires - Len(waiters)

\* await shopifyRateLimiter.waitForAvailability(this.shop, 1)
ShopifyGate ==
    /\ api.phase = "idle"
    /\ acquires = 0
    /\ WaitForAvailability(LiveShop, 1)

\* const result = await super.request(url, options), once the gate resolved
SuperRequest(url, options) ==
    /\ Grants > 0
    /\ Request(url, options)

\* the catch of ShopifyApiClient.request: an EXTERNAL_API error is rethrown
\* as createShopifyApiError(`${method} ${url}`, error, error.statusCode)
ShopifyCatch ==
    /\ api.phase = "threw"
    /\ LET error == TheOption(api.thrown)
       IN  api' = [api EXCEPT
                     !.phase = "rethrown",
                     !.thrown = IF error.type = "EXTERNAL_API_ERROR"
                                THEN Some(createShopifyApiError("GET " \o api.url,
                                              error.message, Some(error.statusCode)))
                                ELSE @]
    /\ UNCHANGED <<now, windowVars, bucketVars, pure>>

SpecShopifyInit ==
    /\ now = 0
    /\ InitIdleWindow
    /\ buckets \in {<<>>, AfterBurst(<<>>, LiveShop, BucketMaxTokens)}
    /\ waiters = <<>>
    /\ acquires = 0
    /\ lastAcq = NoAcquire
    /\ InitPure
    /\ InitApi

SpecShopifyNext ==
    \/ ShopifyGate
    \/ AdvanceToWake
    \/ TimerFires
    \/ \E url \in Urls, options \in ClientOptions : SuperRequest(url, options)
    \/ \E status \in OkStatuses : RespondOk(status)
    \/ \E status \in OkStatuses : RespondBadBody(status)
    \/ \E status \in FailStatuses : RespondNotOk(status)
    \/ \E message \in FetchFailures : FetchRejects(message)
    \/ TimeoutFires
    \/ DelayElapses
    \/ ShopifyCatch

SpecShopify == SpecShopifyInit /\ [][SpecShopifyNext]_vars

\* C24: every fetch of ShopifyApiClient.request, the retries of the
\* inherited loop included, comes after a waitForAvailability grant of its
\* own: the fetches sent for the shop never number more than the grants
\* obtained for it.
C24_EveryFetchGated == api.fetches <= Grants


-----------------------------------------------------------------------------
(* SpecStore: the fixed-window store of one key of a class whose limit is   *)
(* small (auth, token) under every interleaving: the exported functions     *)
(* called directly, and MaxInflight requests served through withRateLimit,  *)
(* suspended in their handlers at once or one after another.                *)

MaxInflight == 2

SpecStoreInit ==
    /\ now = 0
    /\ active \in { {<<ReqShopA, type>>} : type \in {"auth", "token"} }
    /\ InitWindow
    /\ InitBucket
    /\ InitPure
    /\ InitApi

SpecStoreNext ==
    \/ \E c \in active, sweep \in BOOLEAN : CheckRateLimit(c[1], c[2], sweep)
    \/ \E c \in active : RecordSuccess(c[1], c[2])
    \/ \E c \in active : RecordFailure(c[1], c[2])
    \/ \E c \in active, sweep \in BOOLEAN :
          served < MaxInflight /\ WithRateLimitCall(c[1], c[2], sweep)
    \/ \E i \in 1..MaxInflight : HandlerSucceeds(i)
    \/ \E i \in 1..MaxInflight : HandlerFails(i)
    \/ \E c \in active : \E t \in LimitInstants(c[2]) : Tick(t)

SpecStore == SpecStoreInit /\ [][SpecStoreNext]_vars


\* C25: every entry of the fixed-window store has 0 <= count <= maxRequests
\* of its class, under every interleaving of checkRateLimit, recordSuccess,
\* recordFailure, the sweep and the clock, requests suspended in the handler
\* of withRateLimit included.
C25_CountWithinBounds ==
    \A key \in DOMAIN rateLimitStore :
        /\ rateLimitStore[key].count >= 0
        /\ rateLimitStore[key].count <= Config(ActiveType).maxRequests

\* the window is full while two requests are suspended in their handlers
C25_Witness ==
    /\ Len(inflight) >= 2
    /\ \E key \in DOMAIN rateLimitStore :
          rateLimitStore[key].count = Config(ActiveType).maxRequests


-----------------------------------------------------------------------------
(* lastRefill *)

\* C26: every access of waitForAvailability, the post-wait resumption
\* included, sets the bucket's lastRefill to the instant of the access,
\* whether or not the refill added a token.
C26_EveryAccessSetsLastRefill ==
    lastAcq.op # "none" => BucketAfter.lastRefill = lastAcq.at

\* C26, amended: a call sets lastRefill to the instant of the access when it
\* creates the bucket or its refill adds at least one token; a call whose
\* refill adds none, and the post-wait resumption, leave lastRefill as it was.
C26_LastRefillSetWhenRefilled ==
    /\ (lastAcq.op \in {"grant", "suspend"} /\ lastAcq.before = Null) =>
          BucketAfter.lastRefill = lastAcq.at
    /\ \A found \in lastAcq.before :
          BucketAfter.lastRefill =
              IF /\ lastAcq.op \in {"grant", "suspend"}
                 /\ (lastAcq.at - found.lastRefill) * BucketRefillRate >= 1000
              THEN lastAcq.at
              ELSE found.lastRefill

\* a call 250 ms or more after the last refill that adds no token: lastRefill
\* stays behind the instant of the access
C26_Witness ==
    /\ lastAcq.op \in {"grant", "suspend"}
    /\ \E found \in lastAcq.before :
          /\ lastAcq.at > found.lastRefill
          /\ BucketAfter.lastRefill = found.lastRefill


-----------------------------------------------------------------------------
(* SpecKeys: the exported functions called directly for two (class,         *)
(* identity, endpoint) triples that share one store; the sweep runs at any  *)
(* checkRateLimit call.                                                     *)

ReqShop(shop) == [shop |-> shop, forwarded |-> "", realIp |-> ""]

Triple(request, endpoint, type) ==
    [request |-> request, endpoint |-> endpoint, type |-> type]

\* two triples that differ in the identity, in the class, in the endpoint,
\* and in both the identity and the endpoint
TriplePairs ==
    { {Triple(ReqShopA, Endpoint, "token"), Triple(ReqIpB, Endpoint, "token")},
      {Triple(ReqShopA, Endpoint, "token"), Triple(ReqShopA, Endpoint, "auth")},
      {Triple(ReqShopA, Endpoint, "token"), Triple(ReqShopA, "products", "token")},
      {Triple(ReqShop("x:v2"), "orders", "token"), Triple(ReqShop("x"), "v2:orders", "token")} }

TripleKey(c) == KeyOf(c.request, c.endpoint, c.type)

SpecKeysInit ==
    /\ now = 0
    /\ active \in TriplePairs
    /\ InitWindow
    /\ InitBucket
    /\ InitPure
    /\ InitApi

SpecKeysNext ==
    \/ \E c \in active, sweep \in BOOLEAN : CheckRateLimitAt(c, sweep)
    \/ \E c \in active : RecordSuccessAt(c)
    \/ \E c \in active : RecordFailureAt(c)
    \/ \E c \in active : \E t \in LimitInstants(c.type) : Tick(t)

SpecKeys == SpecKeysInit /\ [][SpecKeysNext]_vars


\* the swept store holds the entries of the store that is never swept,
\* unaltered, except entries that have expired
SweptOnlyExpired ==
    /\ DOMAIN rateLimitStore \subseteq DOMAIN unswept
    /\ \A key \in DOMAIN rateLimitStore : rateLimitStore[key] = unswept[key]
    /\ \A key \in DOMAIN unswept \ DOMAIN rateLimitStore : now > unswept[key].resetTime

\* a step of a checkRateLimit call
ChecksLimit ==
    /\ last'.op = "checkRateLimit"
    /\ last' # last \/ rateLimitStore' # rateLimitStore \/ unswept' # unswept

\* the call's outcome is the outcome of the same call on the store that is
\* never swept
SameOutcomeUnswept ==
    ChecksLimit =>
        \E c \in active :
            /\ TripleKey(c) = last'.key
            /\ LET u == checkRateLimit(unswept, c.request, c.endpoint, c.type, now, FALSE)
               IN  /\ last'.threw = u.threw
                   /\ last'.ret = u.ret
                   /\ last'.err = u.err

\* C27: the sweep is transparent to throttling: every checkRateLimit call
\* is admitted or rejected, with the same limit, remaining, reset and
\* retryAfter, as in the run where cleanupExpiredEntries never runs; the
\* sweep deletes only entries with now > resetTime and leaves every entry
\* whose window is current as it is.
C27_SweepTransparent == []SweptOnlyExpired /\ [][SameOutcomeUnswept]_vars

\* a sweep has deleted the expired entry of one triple during a call for the
\* other, whose entry it kept
C27_Witness ==
    /\ last.op = "checkRateLimit"
    /\ DOMAIN unswept \ DOMAIN rateLimitStore # {}
    /\ \E key \in DOMAIN rateLimitStore : rateLimitStore[key].count > 1


-----------------------------------------------------------------------------
(* Isolation of the keys *)

\* a step of checkRateLimit, recordSuccess or recordFailure
CallsStore ==
    /\ last'.op \in {"checkRateLimit", "recordSuccess", "recordFailure"}
    /\ last' # last \/ rateLimitStore' # rateLimitStore

\* the entry of triple d is current
IsCurrent(d) ==
    /\ Has(rateLimitStore, TripleKey(d))
    /\ ~(now > rateLimitStore[TripleKey(d)].resetTime)

\* the step leaves count and resetTime of the entry of triple d as they were
KeepsEntry(d) ==
    /\ Has(rateLimitStore', TripleKey(d))
    /\ rateLimitStore'[TripleKey(d)].count = rateLimitStore[TripleKey(d)].count
    /\ rateLimitStore'[TripleKey(d)].resetTime = rateLimitStore[TripleKey(d)].resetTime

\* C30: a checkRateLimit, recordSuccess or recordFailure call for one
\* (class, identity, endpoint) triple never changes the count or the
\* resetTime of a current entry of a different triple.
C30_TriplesIsolated ==
    [][CallsStore =>
          \A c \in active :
              TripleKey(c) = last'.key =>
                  \A d \in active \ {c} : IsCurrent(d) => KeepsEntry(d)]_vars


-----------------------------------------------------------------------------
(* Termination of ApiClient.request *)

\* how the call stands: within its attempts, and ended with a 2xx result or
\* an EXTERNAL_API error, the abort timer cleared outside an attempt
EndsWithResultOrError ==
    /\ api.fetches <= api.client.retries
    /\ api.phase = "returned" =>
          /\ api.thrown = Null
          /\ \E result \in api.result : result.status \in 200..299
    /\ api.phase = "threw" =>
          /\ api.result = Null
          /\ \E error \in api.thrown : error.type = "EXTERNAL_API_ERROR"
    /\ api.phase \in {"delaying", "returned", "threw"} => api.timerAt = Null

\* a call in progress goes on: its fetch settles or is aborted, its delay ends
GoesOn ==
    /\ api.phase = "fetching" => ENABLED TimeoutFires
    /\ api.phase = "delaying" => ENABLED DelayElapses

\* what is left of the call: two steps per attempt not yet started, one for
\* the attempt in progress
Rank(a) == 2 * (a.client.retries - a.fetches) + (IF a.phase = "fetching" THEN 1 ELSE 0)

\* every step of a started call uses up some of what is left
RankDecreases == (api.phase # "idle" /\ api' # api) => Rank(api') < Rank(api)

-----------------------------------------------------------------------------
(* Required fields of a request *)

\* C29: whatever the field's type, a schema field with validation.required
\* = true whose raw value is absent, null, undefined or '' makes
\* validateAndSanitizeRequest throw a VALIDATION error that has an entry for
\* the field: sanitizing never makes an empty raw value pass as present.
C29_EmptyRequiredFieldRejected ==
    pure.fn = "validateAndSanitizeRequest" =>
        LET data == pure.args[1]
            schema == pure.args[2]
            raw(field) == IF field \in DOMAIN data THEN data[field] ELSE JsUndefined
        IN  \A field \in DOMAIN schema :
                (Flag(schema[field].validation, "required") /\ IsEmptyValue(raw(field)))
                    => /\ pure.threw
                       /\ PureErr.type = "VALIDATION_ERROR"
                       /\ field \in DOMAIN PureErr.context.value

====
